---------------------------- MODULE Spec2Model ----------------------------
(***************************************************************************)
(* A model of the spelling-correction engine of rrvrs/spell-checker:       *)
(*   backend/utils/frequency_manager.py   FrequencyManager                 *)
(*   backend/utils/edit_distance.py       EditDistanceCalculator           *)
(*   backend/utils/homophone_detector.py  HomophoneDetector                *)
(*   backend/utils/spellchecker.py        SpellChecker                     *)
(*                                                                         *)
(* A word is a sequence of one-character strings; a text or a corpus is    *)
(* the sequence of tokens nltk's word_tokenize makes of it (the tokenizer  *)
(* is a library outside the repository: the model starts from its output, *)
(* already lower-cased).  A Python float is modelled by the exact fraction *)
(* [num, den] it approximates; a raised ZeroDivisionError is a value with  *)
(* ok = FALSE.                                                             *)
(***************************************************************************)
EXTENDS Integers, Sequences, FiniteSets, TLC

VARIABLES
    frequency_manager,   \* the FrequencyManager object (a record of its fields)
    edit_distance_calc,  \* the EditDistanceCalculator object (its configuration)
    spellchecker,        \* the SpellChecker's own fields (vocab, medical_terms, config)
    input,               \* the arguments the calls of a specification are made with
    ret,                 \* the last call: its name, arguments and returned value
    builds,              \* number of build_frequency_models calls made so far
    queries              \* number of query calls made so far

vars == <<frequency_manager, edit_distance_calc, spellchecker, input, ret, builds, queries>>

(***************************************************************************)
(* Bounds of the model.                                                    *)
(***************************************************************************)
MaxCorpusLen == 3
MaxBuilds == 2
MaxContextLen == 2
MaxQueries == 1

\* All sequences over S of length at most n.
SeqsUpTo(S, n) == UNION {[1..k -> S] : k \in 0..n}

\* The words the frequency-model specifications train on and ask about.
Tokens == {<<"a">>, <<"b">>}

Corpora == SeqsUpTo(Tokens, MaxCorpusLen)

Contexts == SeqsUpTo(Tokens, MaxContextLen)

SmoothingMethods == {"add-one", "good-turing", "none"}

ModelTypes == {"bigram", "trigram"}

(***************************************************************************)
(* Fractions: the exact value of a float result.                           *)
(***************************************************************************)
Frac(n, d) == [ok |-> TRUE, num |-> n, den |-> d]

\* A division by zero: Python raises ZeroDivisionError instead of returning.
ZeroDivisionError == [ok |-> FALSE, num |-> 0, den |-> 1]

\* The division n / d of two Python ints.
Div(n, d) == IF d = 0 THEN ZeroDivisionError ELSE Frac(n, d)

FracLE(x, y) == x.num * y.den <= y.num * x.den

FracLT(x, y) == x.num * y.den < y.num * x.den

FracEq(x, y) == x.num * y.den = y.num * x.den

FracAdd(x, y) == Frac(x.num * y.den + y.num * x.den, x.den * y.den)

FracMul(x, y) == Frac(x.num * y.num, x.den * y.den)

Zero == Frac(0, 1)

One == Frac(1, 1)

RECURSIVE GCD(_, _)
GCD(a, b) == IF b = 0 THEN a ELSE GCD(b, a % b)

\* The same number in lowest terms
Normalize(x) ==
    LET g == GCD(x.num, x.den)
    IN  IF ~x.ok \/ g = 0 THEN x ELSE Frac(x.num \div g, x.den \div g)

\* x + y over the least common denominator
FracSum(x, y) ==
    LET g == GCD(x.den, y.den)
    IN  Normalize(Frac(x.num * (y.den \div g) + y.num * (x.den \div g),
                       (x.den \div g) * y.den))

\* x / y, common factors cancelled before multiplying
FracDiv(x, y) ==
    IF y.num = 0 THEN ZeroDivisionError
    ELSE LET gn == GCD(x.num, y.num)
             gd == GCD(x.den, y.den)
         IN  IF gn = 0 THEN Zero
             ELSE Normalize(Frac((x.num \div gn) * (y.den \div gd),
                                 (x.den \div gd) * (y.num \div gn)))

RECURSIVE Pow10(_)
Pow10(digits) == IF digits = 0 THEN 1 ELSE 10 * Pow10(digits - 1)

RECURSIVE scaled_floor(_, _, _)
\* floor(n * 10^digits / d) and the remainder, by long division
scaled_floor(n, d, digits) ==
    IF digits = 0 THEN [q |-> n \div d, r |-> n % d]
    ELSE LET p == scaled_floor(n, d, digits - 1)
         IN  [q |-> 10 * p.q + ((10 * p.r) \div d), r |-> (10 * p.r) % d]

\* round(x, digits) of a non-negative x: the nearest multiple of 10^-digits,
\* a tie going to the even one.  (Python rounds the float nearest to x, so on
\* a tie that the float does not represent exactly it may go the other way.)
round(x, digits) ==
    LET p == scaled_floor(x.num, x.den, digits)
        up == 2 * p.r > x.den \/ (2 * p.r = x.den /\ p.q % 2 = 1)
    IN  Normalize(Frac(IF up THEN p.q + 1 ELSE p.q, Pow10(digits)))

(***************************************************************************)
(* collections.Counter and collections.defaultdict(Counter): a function    *)
(* whose DOMAIN is the set of keys the dict holds.                         *)
(***************************************************************************)
EmptyDict == [k \in {} |-> 0]

\* dict.get(k, 0)
Get(c, k) == IF k \in DOMAIN c THEN c[k] ELSE 0

\* c[k] += 1
Incr(c, k) == [x \in DOMAIN c \cup {k} |-> IF x = k THEN Get(c, k) + 1 ELSE c[x]]

\* d[k] on a defaultdict(Counter): a key that is missing is inserted with an
\* empty Counter, also when d[k] is only read.
Touch(d, k) == [x \in DOMAIN d \cup {k} |-> IF x \in DOMAIN d THEN d[x] ELSE EmptyDict]

\* d[k][w] += 1 on a defaultdict(Counter)
Incr2(d, k, w) == [x \in DOMAIN d \cup {k} |->
                     IF x = k THEN Incr(Touch(d, k)[k], w) ELSE d[x]]

RECURSIVE SumOver(_, _)
\* sum(c[k] for k in S)
SumOver(c, S) ==
    IF S = {} THEN 0
    ELSE LET k == CHOOSE x \in S : TRUE IN c[k] + SumOver(c, S \ {k})

\* sum(c.values())
SumValues(c) == SumOver(c, DOMAIN c)

\* sum of all counts of a defaultdict(Counter)
RECURSIVE SumNested(_, _)
SumNested(d, S) ==
    IF S = {} THEN 0
    ELSE LET k == CHOOSE x \in S : TRUE IN SumValues(d[k]) + SumNested(d, S \ {k})

(***************************************************************************)
(* FrequencyManager                                                        *)
(***************************************************************************)
\* FrequencyManager.__init__
FrequencyManager_init(smoothing) ==
    [unigram_freq |-> EmptyDict, bigram_freq |-> EmptyDict, trigram_freq |-> EmptyDict,
     total_words |-> 0, vocabulary_size |-> 0, smoothing_method |-> smoothing]

RECURSIVE update(_, _, _)
\* Counter.update(tokens), from token i on
update(c, tokens, i) ==
    IF i > Len(tokens) THEN c ELSE update(Incr(c, tokens[i]), tokens, i + 1)

RECURSIVE count_bigrams_short(_, _, _)
\* count_bigrams with the last adjacent pair left out
count_bigrams_short(d, tokens, i) ==
    IF i + 2 > Len(tokens) THEN d
    ELSE count_bigrams_short(Incr2(d, tokens[i], tokens[i + 1]), tokens, i + 1)

RECURSIVE count_bigrams(_, _, _)
\* for prev_word, curr_word in ngrams(tokens, 2): bigram_freq[prev_word][curr_word] += 1
count_bigrams(d, tokens, i) ==
    IF i + 1 > Len(tokens) THEN d
    ELSE count_bigrams(Incr2(d, tokens[i], tokens[i + 1]), tokens, i + 1)

RECURSIVE count_trigrams(_, _, _)
\* for w1, w2, w3 in ngrams(tokens, 3): trigram_freq[(w1, w2)][w3] += 1
count_trigrams(d, tokens, i) ==
    IF i + 2 > Len(tokens) THEN d
    ELSE count_trigrams(Incr2(d, <<tokens[i], tokens[i + 1]>>, tokens[i + 2]),
                        tokens, i + 1)

\* total_words = len(tokens)
total_words_of(fm, tokens) == Len(tokens)

\* FrequencyManager.build_frequency_models: the object after the call
build_frequency_models(fm, tokens) ==
    LET unigram == update(fm.unigram_freq, tokens, 1) IN
    [fm EXCEPT !.total_words = total_words_of(fm, tokens),
               !.unigram_freq = unigram,
               !.vocabulary_size = Cardinality(DOMAIN unigram),
               !.bigram_freq = count_bigrams(fm.bigram_freq, tokens, 1),
               !.trigram_freq = count_trigrams(fm.trigram_freq, tokens, 1)]

\* FrequencyManager._good_turing_probability
good_turing_probability(fm, word) ==
    LET count == Get(fm.unigram_freq, word) IN
    IF count = 0
    THEN LET n1 == Cardinality({w \in DOMAIN fm.unigram_freq : fm.unigram_freq[w] = 1})
         IN  Div(n1, fm.total_words)
    ELSE Div(count, fm.total_words)

\* The add-one estimate of get_word_probability
add_one_probability(fm, word) ==
    Div(Get(fm.unigram_freq, word) + 1, fm.total_words + fm.vocabulary_size)

\* FrequencyManager.get_word_probability
get_word_probability(fm, word) ==
    LET count == Get(fm.unigram_freq, word) IN
    IF fm.smoothing_method = "add-one" THEN add_one_probability(fm, word)
    ELSE IF fm.smoothing_method = "good-turing" THEN good_turing_probability(fm, word)
    ELSE IF fm.total_words > 0 THEN Div(count, fm.total_words) ELSE Zero

\* context[-1:] and context[-2:]
Last(context, n) ==
    IF Len(context) <= n THEN context
    ELSE SubSeq(context, Len(context) - n + 1, Len(context))

\* bigram_probability with add-one's V left out of the denominator
bigram_probability_no_v(fm, word, prev_word) ==
    LET add == IF fm.smoothing_method = "add-one" THEN 1 ELSE 0
        numerator == Get(Touch(fm.bigram_freq, prev_word)[prev_word], word) + add
        denominator == Get(fm.unigram_freq, prev_word)
    IN  IF denominator > 0 THEN Div(numerator, denominator)
        ELSE add_one_probability(fm, word)

\* The estimate of the bigram branch of get_conditional_probability
bigram_probability(fm, word, prev_word) ==
    LET add == IF fm.smoothing_method = "add-one" THEN 1 ELSE 0
        numerator == Get(Touch(fm.bigram_freq, prev_word)[prev_word], word) + add
        denominator == Get(fm.unigram_freq, prev_word) + add * fm.vocabulary_size
    IN  IF denominator > 0 THEN Div(numerator, denominator)
        ELSE get_word_probability(fm, word)

\* The denominator of the trigram branch of get_conditional_probability
trigram_denominator(fm, prev_context) ==
    LET add == IF fm.smoothing_method = "add-one" THEN 1 ELSE 0
    IN  SumValues(Touch(fm.trigram_freq, prev_context)[prev_context])
          + add * fm.vocabulary_size

\* get_conditional_probability with the trigram branch falling back to
\* get_word_probability directly
get_conditional_probability_skipping_bigram(fm, word, context, model_type) ==
    IF model_type = "bigram" /\ Len(context) >= 1
    THEN bigram_probability(fm, word, context[Len(context)])
    ELSE IF model_type = "trigram" /\ Len(context) >= 2
    THEN LET prev_context == Last(context, 2)
             add == IF fm.smoothing_method = "add-one" THEN 1 ELSE 0
             numerator == Get(Touch(fm.trigram_freq, prev_context)[prev_context], word) + add
             denominator == trigram_denominator(fm, prev_context)
         IN  IF denominator > 0 THEN Div(numerator, denominator)
             ELSE get_word_probability(fm, word)
    ELSE get_word_probability(fm, word)

\* FrequencyManager.get_conditional_probability: the value returned
get_conditional_probability(fm, word, context, model_type) ==
    IF model_type = "bigram" /\ Len(context) >= 1
    THEN bigram_probability(fm, word, context[Len(context)])
    ELSE IF model_type = "trigram" /\ Len(context) >= 2
    THEN LET prev_context == Last(context, 2)
             add == IF fm.smoothing_method = "add-one" THEN 1 ELSE 0
             numerator == Get(Touch(fm.trigram_freq, prev_context)[prev_context], word) + add
             denominator == trigram_denominator(fm, prev_context)
         IN  IF denominator > 0 THEN Div(numerator, denominator)
             ELSE bigram_probability(fm, word, context[Len(context)])
    ELSE get_word_probability(fm, word)

\* FrequencyManager.get_conditional_probability: the object after the call.
\* self.bigram_freq[prev_word] and self.trigram_freq[prev_context] are reads of
\* a defaultdict, which insert the key when it is missing; the trigram branch
\* with a zero denominator goes on to read self.bigram_freq[context[-1]].
after_get_conditional_probability(fm, word, context, model_type) ==
    IF model_type = "bigram" /\ Len(context) >= 1
    THEN [fm EXCEPT !.bigram_freq = Touch(@, context[Len(context)])]
    ELSE IF model_type = "trigram" /\ Len(context) >= 2
    THEN LET prev_context == Last(context, 2)
             touched == [fm EXCEPT !.trigram_freq = Touch(@, prev_context)]
         IN  IF trigram_denominator(fm, prev_context) > 0 THEN touched
             ELSE [touched EXCEPT !.bigram_freq = Touch(@, context[Len(context)])]
    ELSE fm

\* 0.3 * unigram_prob + 0.7 * contextual_prob
weighted_score(unigram_prob, contextual_prob) ==
    IF ~unigram_prob.ok \/ ~contextual_prob.ok THEN ZeroDivisionError
    ELSE Frac(3 * unigram_prob.num * contextual_prob.den
                + 7 * contextual_prob.num * unigram_prob.den,
              10 * unigram_prob.den * contextual_prob.den)

\* FrequencyManager.get_frequency_score: the value returned
get_frequency_score(fm, word, context, model_type) ==
    LET unigram_prob == get_word_probability(fm, word)
        contextual_prob == IF Len(context) > 0
                           THEN get_conditional_probability(fm, word, context, model_type)
                           ELSE unigram_prob
    IN  weighted_score(unigram_prob, contextual_prob)

\* FrequencyManager.get_frequency_score: the object after the call (a raise in
\* get_word_probability leaves before the conditional query is made)
after_get_frequency_score(fm, word, context, model_type) ==
    IF get_word_probability(fm, word).ok /\ Len(context) > 0
    THEN after_get_conditional_probability(fm, word, context, model_type)
    ELSE fm

\* FrequencyManager.get_statistics (most_common_words is left out)
get_statistics(fm) ==
    [total_words |-> fm.total_words,
     vocabulary_size |-> fm.vocabulary_size,
     unique_bigrams |-> Cardinality(DOMAIN fm.bigram_freq),
     unique_trigrams |-> Cardinality(DOMAIN fm.trigram_freq),
     smoothing_method |-> fm.smoothing_method]


\* The 1e-10 that get_perplexity takes the logarithm of in place of a zero.
Epsilon == [ok |-> TRUE, num |-> 0, den |-> 1, literal |-> "1e-10"]

RECURSIVE perplexity_loop(_, _, _, _, _)
\* The loop of get_perplexity from token i on: the object after it, the
\* probabilities P_i whose logarithms are summed (a zero becomes 1e-10), and
\* whether a query raised.
perplexity_loop(fm, test_tokens, model_type, i, probs) ==
    IF i > Len(test_tokens) THEN [fm |-> fm, ok |-> TRUE, probs |-> probs]
    ELSE LET token == test_tokens[i]
             bi == model_type = "bigram" /\ i > 1
             tri == model_type = "trigram" /\ i > 2
             ctx == IF bi THEN <<test_tokens[i - 1]>>
                    ELSE IF tri THEN <<test_tokens[i - 2], test_tokens[i - 1]>>
                    ELSE <<>>
             prob == IF bi \/ tri
                     THEN get_conditional_probability(fm, token, ctx, model_type)
                     ELSE get_word_probability(fm, token)
             fm2 == IF bi \/ tri
                    THEN after_get_conditional_probability(fm, token, ctx, model_type)
                    ELSE fm
         IN  IF ~prob.ok THEN [fm |-> fm2, ok |-> FALSE, probs |-> probs]
             ELSE perplexity_loop(fm2, test_tokens, model_type, i + 1,
                     Append(probs, IF prob.num > 0 THEN prob ELSE Epsilon))

\* FrequencyManager.get_perplexity: exp(-avg_log_prob) is a function of the
\* list of the P_i, which stands for it here; avg_log_prob divides by n_tokens.
get_perplexity(fm, test_tokens, model_type) ==
    LET r == perplexity_loop(fm, test_tokens, model_type, 1, <<>>) IN
    [fm |-> r.fm, ok |-> r.ok /\ Len(test_tokens) > 0, probs |-> r.probs]

(***************************************************************************)
(* The FrequencyManager's operations as actions.                           *)
(***************************************************************************)
Unused == <<>>

OthersUnchanged == UNCHANGED <<edit_distance_calc, spellchecker, input>>

\* A FrequencyManager just constructed, under each smoothing mode of the config.
InitTrain ==
    /\ \E s \in SmoothingMethods : frequency_manager = FrequencyManager_init(s)
    /\ edit_distance_calc = Unused
    /\ spellchecker = Unused
    /\ input = Unused
    /\ ret = [op |-> "__init__"]
    /\ builds = 0
    /\ queries = 0

\* A FrequencyManager constructed and built once from a corpus, as
\* SpellChecker.__init__ leaves it (build_models calls build_frequency_models).
InitBuilt ==
    /\ \E s \in SmoothingMethods, corpus \in Corpora :
          frequency_manager = build_frequency_models(FrequencyManager_init(s), corpus)
    /\ edit_distance_calc = Unused
    /\ spellchecker = Unused
    /\ input = Unused
    /\ ret = [op |-> "build_frequency_models"]
    /\ builds = 1
    /\ queries = 0

BuildFrequencyModels ==
    /\ builds < MaxBuilds
    /\ \E corpus \in Corpora :
          /\ frequency_manager' = build_frequency_models(frequency_manager, corpus)
          /\ ret' = [op |-> "build_frequency_models", tokens |-> corpus]
    /\ builds' = builds + 1
    /\ UNCHANGED queries
    /\ OthersUnchanged

GetStatistics ==
    /\ ret' = [op |-> "get_statistics", value |-> get_statistics(frequency_manager)]
    /\ UNCHANGED <<frequency_manager, builds, queries>>
    /\ OthersUnchanged

GetWordProbability ==
    /\ queries < MaxQueries
    /\ \E word \in Tokens :
          ret' = [op |-> "get_word_probability", word |-> word,
                  value |-> get_word_probability(frequency_manager, word)]
    /\ queries' = queries + 1
    /\ UNCHANGED <<frequency_manager, builds>>
    /\ OthersUnchanged

GetConditionalProbability ==
    /\ queries < MaxQueries
    /\ \E word \in Tokens, context \in Contexts, model_type \in ModelTypes :
          /\ ret' = [op |-> "get_conditional_probability", word |-> word,
                     context |-> context, model_type |-> model_type,
                     value |-> get_conditional_probability(
                                  frequency_manager, word, context, model_type)]
          /\ frequency_manager' = after_get_conditional_probability(
                                  frequency_manager, word, context, model_type)
    /\ queries' = queries + 1
    /\ UNCHANGED builds
    /\ OthersUnchanged

GetFrequencyScore ==
    /\ queries < MaxQueries
    /\ \E word \in Tokens, context \in Contexts, model_type \in ModelTypes :
          /\ ret' = [op |-> "get_frequency_score", word |-> word,
                     context |-> context, model_type |-> model_type,
                     value |-> get_frequency_score(
                                  frequency_manager, word, context, model_type)]
          /\ frequency_manager' = after_get_frequency_score(
                                  frequency_manager, word, context, model_type)
    /\ queries' = queries + 1
    /\ UNCHANGED builds
    /\ OthersUnchanged

GetPerplexity ==
    /\ queries < MaxQueries
    /\ \E test_tokens \in Contexts, model_type \in ModelTypes :
          LET r == get_perplexity(frequency_manager, test_tokens, model_type) IN
          /\ ret' = [op |-> "get_perplexity", test_tokens |-> test_tokens,
                     model_type |-> model_type, ok |-> r.ok, probs |-> r.probs]
          /\ frequency_manager' = r.fm
    /\ queries' = queries + 1
    /\ UNCHANGED builds
    /\ OthersUnchanged

NextTrain == BuildFrequencyModels \/ GetStatistics

\* Training: a FrequencyManager and the build calls made on it.
SpecTrain == InitTrain /\ [][NextTrain]_vars

NextQuery ==
    \/ GetWordProbability
    \/ GetConditionalProbability
    \/ GetFrequencyScore
    \/ GetPerplexity
    \/ GetStatistics

\* Querying: a built FrequencyManager and the queries made of it.
SpecQuery == InitBuilt /\ [][NextQuery]_vars

(***************************************************************************)
(* Claims about the frequency model.                                       *)
(***************************************************************************)
\* C3 (as claimed): on a model built from a corpus that is not empty, a query
\* call (get_word_probability, get_conditional_probability,
\* get_frequency_score, get_perplexity) leaves the unigram, bigram and trigram
\* mappings (their key sets and counts), N and V exactly as they were.
C3_QueriesLeaveModelUnchanged ==
    [][(frequency_manager.total_words > 0 /\ queries' > queries)
          => frequency_manager' = frequency_manager]_vars

\* C4 (as claimed): in every state reached by build_frequency_models,
\* total_words is the sum of the unigram counts and vocabulary_size is the
\* number of unigram keys.
C4_TotalsMatchUnigrams ==
    /\ frequency_manager.total_words = SumValues(frequency_manager.unigram_freq)
    /\ frequency_manager.vocabulary_size
         = Cardinality(DOMAIN frequency_manager.unigram_freq)

BigramTotal == SumNested(frequency_manager.bigram_freq, DOMAIN frequency_manager.bigram_freq)

TrigramTotal == SumNested(frequency_manager.trigram_freq, DOMAIN frequency_manager.trigram_freq)

\* C5 (as claimed): after the first build on a corpus of N tokens the bigram
\* counts sum to N - 1 and the trigram counts to N - 2, for every N.
C5_NgramTotalsAsClaimed ==
    builds = 1 =>
        /\ BigramTotal = frequency_manager.total_words - 1
        /\ TrigramTotal = frequency_manager.total_words - 2

Max(x, y) == IF x >= y THEN x ELSE y

\* C5 (amended): after the first build on a corpus of N tokens the bigram
\* counts sum to max(N - 1, 0) and the trigram counts to max(N - 2, 0).
C5_NgramTotals ==
    builds = 1 =>
        /\ BigramTotal = Max(frequency_manager.total_words - 1, 0)
        /\ TrigramTotal = Max(frequency_manager.total_words - 2, 0)

\* C5 witness: a first build on a corpus of three tokens or more.
C5_Witness ==
    /\ builds = 1
    /\ ret.op = "build_frequency_models"
    /\ frequency_manager.total_words >= 3
    /\ TrigramTotal >= 1

\* C6 (as claimed): get_word_probability returns, without a division by
\* zero, a value p with 0 <= p <= 1, in every model state and smoothing mode.
C6_WordProbabilityInUnitInterval ==
    ret.op = "get_word_probability" =>
        /\ ret.value.ok
        /\ FracLE(Zero, ret.value)
        /\ FracLE(ret.value, One)

\* The words observed as next word after context c under a model type.
ObservedNext(fm, c, model_type) ==
    IF model_type = "bigram"
    THEN IF c[Len(c)] \in DOMAIN fm.bigram_freq
         THEN DOMAIN fm.bigram_freq[c[Len(c)]] ELSE {}
    ELSE IF Last(c, 2) \in DOMAIN fm.trigram_freq
         THEN DOMAIN fm.trigram_freq[Last(c, 2)] ELSE {}

RECURSIVE SumProbability(_, _, _, _)
\* The sum of get_conditional_probability(w, c) over the words w of S.
SumProbability(fm, S, c, model_type) ==
    IF S = {} THEN Zero
    ELSE LET w == CHOOSE x \in S : TRUE
             p == get_conditional_probability(fm, w, c, model_type)
             rest == SumProbability(fm, S \ {w}, c, model_type)
         IN  IF p.ok /\ rest.ok THEN FracAdd(p, rest) ELSE ZeroDivisionError

\* C7: under add-one smoothing, for every context c the conditional
\* probabilities of the words observed after c (bigram: after its last word,
\* trigram: after its last two words) sum to at most 1.
C7_ConditionalMassAtMostOne ==
    frequency_manager.smoothing_method = "add-one" =>
        \A c \in Contexts, model_type \in ModelTypes :
            (Len(c) >= (IF model_type = "bigram" THEN 1 ELSE 2)) =>
                LET total == SumProbability(frequency_manager,
                                 ObservedNext(frequency_manager, c, model_type),
                                 c, model_type)
                IN  total.ok /\ FracLE(total, One)

\* C7 witness: a conditional probability returned under add-one smoothing for
\* a word observed after a context that has two observed next words.
C7_Witness ==
    /\ ret.op = "get_conditional_probability"
    /\ frequency_manager.smoothing_method = "add-one"
    /\ Len(ret.context) >= (IF ret.model_type = "bigram" THEN 1 ELSE 2)
    /\ Cardinality(ObservedNext(frequency_manager, ret.context, ret.model_type)) >= 2
    /\ ret.word \in ObservedNext(frequency_manager, ret.context, ret.model_type)
    /\ FracLT(Zero, ret.value)

(***************************************************************************)
(* Persistence: save_models pickles the mappings to a file, load_models    *)
(* reads a file into an instance.                                          *)
(***************************************************************************)
\* FrequencyManager.save_models: the dict that is pickled. dict(...) of a
\* Counter and of a defaultdict keeps keys and counts; self.config carries the
\* smoothing the saving instance was configured with.
save_models(fm) ==
    [unigram_freq |-> fm.unigram_freq,
     bigram_freq |-> [k \in DOMAIN fm.bigram_freq |-> fm.bigram_freq[k]],
     trigram_freq |-> [k \in DOMAIN fm.trigram_freq |-> fm.trigram_freq[k]],
     total_words |-> fm.total_words,
     vocabulary_size |-> fm.vocabulary_size,
     config |-> [smoothing |-> fm.smoothing_method]]

\* FrequencyManager.load_models: the instance after the call. The five
\* attributes are assigned from the file; models['config'] is not read and
\* self.smoothing_method stays as __init__ set it.
load_models(fm, models) ==
    [fm EXCEPT !.unigram_freq = models.unigram_freq,
               !.bigram_freq = [k \in DOMAIN models.bigram_freq |-> models.bigram_freq[k]],
               !.trigram_freq = [k \in DOMAIN models.trigram_freq |-> models.trigram_freq[k]],
               !.total_words = models.total_words,
               !.vocabulary_size = models.vocabulary_size]

\* Two query results are the same: both raise, or both return the same number.
SameValue(x, y) == x.ok = y.ok /\ (x.ok => FracEq(x, y))

\* The denominator of the bigram estimate: the unigram count of the previous
\* word, plus V under add-one
bigram_denominator(fm, prev_word) ==
    Get(fm.unigram_freq, prev_word)
        + (IF fm.smoothing_method = "add-one" THEN fm.vocabulary_size ELSE 0)

\* A trigram query with two words of context was answered and the denominator
\* of its trigram estimate is zero
TrigramFallback ==
    /\ ret.op = "get_conditional_probability"
    /\ ret.model_type = "trigram"
    /\ Len(ret.context) >= 2
    /\ trigram_denominator(frequency_manager, Last(ret.context, 2)) = 0

\* C17: a trigram query whose trigram denominator is zero returns the bigram
\* conditional probability of the word given the last context word, and when
\* the bigram denominator is zero too it returns what get_word_probability
\* gives for the word, under every smoothing mode.
C17_FallbackChain ==
    TrigramFallback =>
        IF bigram_denominator(frequency_manager, ret.context[Len(ret.context)]) > 0
        THEN /\ SameValue(ret.value,
                          get_conditional_probability(
                              frequency_manager, ret.word,
                              <<ret.context[Len(ret.context)]>>, "bigram"))
             /\ SameValue(ret.value,
                          Div(Get(Touch(frequency_manager.bigram_freq,
                                        ret.context[Len(ret.context)])
                                      [ret.context[Len(ret.context)]], ret.word)
                                  + (IF frequency_manager.smoothing_method = "add-one"
                                     THEN 1 ELSE 0),
                              bigram_denominator(frequency_manager,
                                                 ret.context[Len(ret.context)])))
        ELSE SameValue(ret.value, get_word_probability(frequency_manager, ret.word))

\* C17 witness: a trigram query whose two context words were never followed
\* by a word in training, answered with a bigram estimate that is positive
\* and differs from the unigram probability of the word
C17_Witness ==
    /\ TrigramFallback
    /\ bigram_denominator(frequency_manager, ret.context[Len(ret.context)]) > 0
    /\ ret.value.ok
    /\ FracLT(Zero, ret.value)
    /\ ~FracEq(ret.value, get_word_probability(frequency_manager, ret.word))

\* A trained FrequencyManager and no models file yet.
InitPersist ==
    /\ \E s \in SmoothingMethods, corpus \in Corpora :
          frequency_manager = build_frequency_models(FrequencyManager_init(s), corpus)
    /\ edit_distance_calc = Unused
    /\ spellchecker = Unused
    /\ input = [exists |-> FALSE]
    /\ ret = [op |-> "build_frequency_models"]
    /\ builds = 1
    /\ queries = 0

\* frequency_manager.save_models(filepath): input is the file on disk.
SaveModels ==
    /\ input' = [exists |-> TRUE, models |-> save_models(frequency_manager)]
    /\ ret' = [op |-> "save_models"]
    /\ UNCHANGED <<frequency_manager, edit_distance_calc, spellchecker, builds, queries>>

\* FrequencyManager(config).load_models(filepath) on a new instance under each
\* smoothing mode; open() raises when the file is not there.
LoadModels ==
    /\ input.exists
    /\ \E s \in SmoothingMethods :
          ret' = [op |-> "load_models",
                  self |-> load_models(FrequencyManager_init(s), input.models)]
    /\ UNCHANGED <<frequency_manager, edit_distance_calc, spellchecker, input,
                   builds, queries>>

\* A conditional query of the trained model, which may insert an empty key.
QueryTrained ==
    /\ queries < MaxQueries
    /\ \E word \in Tokens, context \in Contexts, model_type \in ModelTypes :
          /\ ret' = [op |-> "get_conditional_probability", word |-> word,
                     context |-> context, model_type |-> model_type,
                     value |-> get_conditional_probability(
                                  frequency_manager, word, context, model_type)]
          /\ frequency_manager' = after_get_conditional_probability(
                                  frequency_manager, word, context, model_type)
    /\ queries' = queries + 1
    /\ UNCHANGED <<edit_distance_calc, spellchecker, input, builds>>

NextPersist == SaveModels \/ LoadModels \/ QueryTrained

\* Persistence: a trained FrequencyManager, its saved file and the instances
\* that load it.
SpecPersist == InitPersist /\ [][NextPersist]_vars

\* Every probability query has the same result on the two models.
SameAnswers(fm1, fm2) ==
    \A word \in Tokens :
        /\ SameValue(get_word_probability(fm1, word), get_word_probability(fm2, word))
        /\ \A context \in Contexts, model_type \in ModelTypes :
              /\ SameValue(get_conditional_probability(fm1, word, context, model_type),
                           get_conditional_probability(fm2, word, context, model_type))
              /\ SameValue(get_frequency_score(fm1, word, context, model_type),
                           get_frequency_score(fm2, word, context, model_type))

\* C11 (as claimed): a model loaded from the file that a model M trained on a
\* corpus with at least one token saved, into an instance configured with any
\* smoothing mode, returns the same value as M for every
\* get_word_probability, get_conditional_probability and get_frequency_score
\* query.
C11_RoundTripSameAnswers ==
    (ret.op = "load_models" /\ frequency_manager.total_words > 0)
        => SameAnswers(ret.self, frequency_manager)


(***************************************************************************)
(* EditDistanceCalculator                                                  *)
(***************************************************************************)
MaxWordLen == 3

\* The letters of the words the edit-distance specification measures.
Alphabet == {"a", "b"}

Words == SeqsUpTo(Alphabet, MaxWordLen)

\* The values the configuration gives an operation cost.
OperationCosts == {1, 2, 3}

Min2(x, y) == IF x <= y THEN x ELSE y

Min3(x, y, z) == Min2(x, Min2(y, z))

Min4(x, y, z, u) == Min2(Min2(x, y), Min2(z, u))

\* EditDistanceCalculator.__init__ (the keyboard layout is KeyboardLayout)
EditDistanceCalculator_init(config) ==
    [max_distance |-> config.max_distance,
     allow_transpose |-> config.allow_transpose,
     substitution_cost |-> config.substitution_cost,
     insertion_cost |-> config.insertion_cost,
     deletion_cost |-> config.deletion_cost,
     transpose_cost |-> config.transpose_cost]

\* config.get(..., default) of EditDistanceCalculator.__init__
DefaultEditDistanceConfig ==
    [max_distance |-> 2, allow_transpose |-> TRUE, substitution_cost |-> 1,
     insertion_cost |-> 1, deletion_cost |-> 1, transpose_cost |-> 1]

\* lev_cell with a matching character charged like a substitution
lev_cell_charging_match(calc, c1, c2, previous_row, current_row, j) ==
    Min3(previous_row[j + 1] + calc.insertion_cost,
         current_row[j] + calc.deletion_cost,
         previous_row[j] + calc.substitution_cost)

\* min(insertions, deletions, substitutions) for column j (from 1) of a row
lev_cell(calc, c1, c2, previous_row, current_row, j) ==
    Min3(previous_row[j + 1] + calc.insertion_cost,
         current_row[j] + calc.deletion_cost,
         previous_row[j] + (IF c1 # c2 THEN calc.substitution_cost ELSE 0))

RECURSIVE lev_row(_, _, _, _, _, _)
\* for j, c2 in enumerate(word2): current_row.append(min(...))
lev_row(calc, c1, word2, previous_row, current_row, j) ==
    IF j > Len(word2) THEN current_row
    ELSE lev_row(calc, c1, word2, previous_row,
                 Append(current_row,
                        lev_cell(calc, c1, word2[j], previous_row, current_row, j)),
                 j + 1)

RECURSIVE lev_rows(_, _, _, _, _)
\* for i, c1 in enumerate(word1): current_row = [i + 1]; ...; previous_row = current_row
lev_rows(calc, word1, word2, previous_row, i) ==
    IF i > Len(word1) THEN previous_row
    ELSE lev_rows(calc, word1, word2,
                  lev_row(calc, word1[i], word2, previous_row, <<i>>, 1), i + 1)

\* The body of levenshtein_distance once word1 is the longer word
lev_ordered(calc, word1, word2) ==
    IF Len(word2) = 0 THEN Len(word1)
    ELSE lev_rows(calc, word1, word2, [j \in 1..(Len(word2) + 1) |-> j - 1], 1)
             [Len(word2) + 1]

\* EditDistanceCalculator.levenshtein_distance
levenshtein_distance(calc, word1, word2) ==
    IF Len(word1) < Len(word2) THEN lev_ordered(calc, word2, word1)
    ELSE lev_ordered(calc, word1, word2)

\* set(word1 + word2)
Chars(word1, word2) == {word1[i] : i \in 1..Len(word1)} \cup {word2[j] : j \in 1..Len(word2)}

\* dl_cell with the columns skipped by a transposition not charged
dl_cell_short_transposition(calc, H, i, j, k, l, cost) ==
    Min4(H[i][j] + cost,
         H[i + 1][j] + calc.insertion_cost,
         H[i][j + 1] + calc.deletion_cost,
         H[k][l] + (i - k - 1) + 1)

\* The min(...) assigned to H[i + 1][j + 1] in damerau_levenshtein_distance
dl_cell(calc, H, i, j, k, l, cost) ==
    Min4(H[i][j] + cost,
         H[i + 1][j] + calc.insertion_cost,
         H[i][j + 1] + calc.deletion_cost,
         H[k][l] + (i - k - 1) + 1 + (j - l - 1))

\* H as damerau_levenshtein_distance initialises it
dl_init(len1, len2) ==
    [r \in 0..(len1 + 1) |-> [c \in 0..(len2 + 1) |->
        IF r = 0 \/ c = 0 THEN len1 + len2
        ELSE IF c = 1 THEN r - 1
        ELSE IF r = 1 THEN c - 1
        ELSE len1 + len2]]

RECURSIVE dl_inner(_, _, _, _, _, _, _, _)
\* for j in range(1, len2 + 1): the row i of H, with DB carried along
dl_inner(calc, word1, word2, H, char_array, i, j, DB) ==
    IF j > Len(word2) THEN H
    ELSE LET k == char_array[word2[j]]
             l == DB
             same == word1[i] = word2[j]
             cost == IF same THEN 0 ELSE 1
             H2 == [H EXCEPT ![i + 1][j + 1] = dl_cell(calc, H, i, j, k, l, cost)]
         IN  dl_inner(calc, word1, word2, H2, char_array, i, j + 1,
                      IF same THEN j ELSE DB)

RECURSIVE dl_outer(_, _, _, _, _, _)
\* for i in range(1, len1 + 1): DB = 0; ...; char_array[word1[i - 1]] = i
dl_outer(calc, word1, word2, H, char_array, i) ==
    IF i > Len(word1) THEN H
    ELSE dl_outer(calc, word1, word2,
                  dl_inner(calc, word1, word2, H, char_array, i, 1, 0),
                  [char_array EXCEPT ![word1[i]] = i], i + 1)

\* EditDistanceCalculator.damerau_levenshtein_distance
damerau_levenshtein_distance(calc, word1, word2) ==
    dl_outer(calc, word1, word2, dl_init(Len(word1), Len(word2)),
             [ch \in Chars(word1, word2) |-> 0], 1)[Len(word1) + 1][Len(word2) + 1]

\* The dp table of get_edit_operations: dp[i][j] by its recurrence
RECURSIVE edit_dp(_, _, _, _)
edit_dp(word1, word2, i, j) ==
    IF j = 0 THEN i
    ELSE IF i = 0 THEN j
    ELSE IF word1[i] = word2[j] THEN edit_dp(word1, word2, i - 1, j - 1)
    ELSE 1 + Min3(edit_dp(word1, word2, i - 1, j),
                  edit_dp(word1, word2, i, j - 1),
                  edit_dp(word1, word2, i - 1, j - 1))

\* The dp table of get_edit_operations, filled
edit_table(word1, word2) ==
    [i \in 0..Len(word1) |-> [j \in 0..Len(word2) |-> edit_dp(word1, word2, i, j)]]

\* f"substitute '{a}' -> '{b}' at position {p}"
Substitute(a, b, p) == [op |-> "substitute", char |-> a, to |-> b, position |-> p]

\* Delete with the position one too far
Delete_off_by_one(a, p) == [op |-> "delete", char |-> a, to |-> "", position |-> p + 1]

\* f"delete '{a}' at position {p}"
Delete(a, p) == [op |-> "delete", char |-> a, to |-> "", position |-> p]

\* f"insert '{b}' at position {p}"
Insert(b, p) == [op |-> "insert", char |-> b, to |-> "", position |-> p]

RECURSIVE backtrace(_, _, _, _, _, _)
\* while i > 0 or j > 0: ... of get_edit_operations; operations in append order
backtrace(word1, word2, dp, i, j, operations) ==
    IF ~(i > 0 \/ j > 0) THEN operations
    ELSE IF i > 0 /\ j > 0 /\ word1[i] = word2[j]
    THEN backtrace(word1, word2, dp, i - 1, j - 1, operations)
    ELSE IF i > 0 /\ j > 0 /\ dp[i][j] = dp[i - 1][j - 1] + 1
    THEN backtrace(word1, word2, dp, i - 1, j - 1,
                   Append(operations, Substitute(word1[i], word2[j], i - 1)))
    ELSE IF i > 0 /\ dp[i][j] = dp[i - 1][j] + 1
    THEN backtrace(word1, word2, dp, i - 1, j,
                   Append(operations, Delete(word1[i], i - 1)))
    ELSE IF j > 0 /\ dp[i][j] = dp[i][j - 1] + 1
    THEN backtrace(word1, word2, dp, i, j - 1,
                   Append(operations, Insert(word2[j], i)))
    ELSE Append(operations, [op |-> "loops forever", char |-> "", to |-> "",
                             position |-> i])

\* list(reversed(operations))
Reversed(seq) == [n \in 1..Len(seq) |-> seq[Len(seq) + 1 - n]]

\* EditDistanceCalculator.get_edit_operations
get_edit_operations(word1, word2) ==
    Reversed(backtrace(word1, word2, edit_table(word1, word2),
                       Len(word1), Len(word2), <<>>))

\* EditDistanceCalculator._build_keyboard_layout
KeyboardLayout ==
    [q |-> {"a", "w"},
     w |-> {"e", "q", "s"},
     e |-> {"d", "r", "w"},
     r |-> {"e", "f", "t"},
     t |-> {"g", "r", "y"},
     y |-> {"h", "t", "u"},
     u |-> {"i", "j", "y"},
     i |-> {"k", "o", "u"},
     o |-> {"i", "l", "p"},
     p |-> {"l", "o"},
     a |-> {"q", "s", "z"},
     s |-> {"a", "d", "w", "x"},
     d |-> {"c", "e", "f", "s"},
     f |-> {"d", "g", "r", "v"},
     g |-> {"b", "f", "h", "t"},
     h |-> {"g", "j", "n", "y"},
     j |-> {"h", "k", "m", "u"},
     k |-> {"i", "j", "l"},
     l |-> {"k", "o", "p"},
     z |-> {"a", "s", "x"},
     x |-> {"c", "d", "s", "z"},
     c |-> {"d", "f", "v", "x"},
     v |-> {"b", "c", "f", "g"},
     b |-> {"g", "h", "n", "v"},
     n |-> {"b", "h", "j", "m"},
     m |-> {"j", "k", "n"}]

\* self.keyboard_layout.get(c1, set())
keyboard_neighbors(c1) == IF c1 \in DOMAIN KeyboardLayout THEN KeyboardLayout[c1] ELSE {}

\* min(insertions, deletions, substitutions) of weighted_edit_distance, in
\* halves (a substitution between adjacent keys costs one half)
weighted_cell(calc, c1, c2, previous_row, current_row, j) ==
    LET sub_cost == IF c1 = c2 THEN 0
                    ELSE IF c2 \in keyboard_neighbors(c1) THEN 1
                    ELSE 2 * calc.substitution_cost
    IN  Min3(previous_row[j + 1] + 2 * calc.insertion_cost,
             current_row[j] + 2 * calc.deletion_cost,
             previous_row[j] + sub_cost)

RECURSIVE weighted_row(_, _, _, _, _, _)
weighted_row(calc, c1, word2, previous_row, current_row, j) ==
    IF j > Len(word2) THEN current_row
    ELSE weighted_row(calc, c1, word2, previous_row,
                      Append(current_row,
                             weighted_cell(calc, c1, word2[j], previous_row, current_row, j)),
                      j + 1)

RECURSIVE weighted_rows(_, _, _, _, _)
weighted_rows(calc, word1, word2, previous_row, i) ==
    IF i > Len(word1) THEN previous_row
    ELSE weighted_rows(calc, word1, word2,
                       weighted_row(calc, word1[i], word2, previous_row, <<2 * i>>, 1),
                       i + 1)

\* The body of weighted_edit_distance once word1 is the longer word, in halves
weighted_ordered(calc, word1, word2) ==
    IF Len(word2) = 0 THEN 2 * Len(word1)
    ELSE weighted_rows(calc, word1, word2,
                       [j \in 1..(Len(word2) + 1) |-> 2 * (j - 1)], 1)[Len(word2) + 1]

\* EditDistanceCalculator.weighted_edit_distance, in halves: the value
\* returned is weighted_edit_distance(...) / 2
weighted_edit_distance(calc, word1, word2) ==
    IF Len(word1) < Len(word2) THEN weighted_ordered(calc, word2, word1)
    ELSE weighted_ordered(calc, word1, word2)

\* phonetic_map of phonetic_distance, in the order of the dict
phonetic_map ==
    <<<<<<"p", "h">>, <<"f">>>>,
      <<<<"t", "i", "o", "n">>, <<"s", "h", "u", "n">>>>,
      <<<<"s", "i", "o", "n">>, <<"z", "h", "u", "n">>>>,
      <<<<"o", "u", "g", "h">>, <<"u", "f", "f">>>>,
      <<<<"a", "u", "g", "h">>, <<"a", "f", "f">>>>,
      <<<<"e", "i", "g", "h">>, <<"a", "y">>>>,
      <<<<"i", "g", "h", "t">>, <<"i", "t", "e">>>>,
      <<<<"k", "n">>, <<"n">>>>,
      <<<<"w", "r">>, <<"r">>>>,
      <<<<"m", "b">>, <<"m">>>>,
      <<<<"b", "t">>, <<"t">>>>>>

\* Whether pattern occurs in word at index i
matches_at(word, pattern, i) ==
    /\ i + Len(pattern) - 1 <= Len(word)
    /\ SubSeq(word, i, i + Len(pattern) - 1) = pattern

RECURSIVE str_replace(_, _, _, _)
\* word.replace(pattern, replacement), from index i on
str_replace(word, pattern, replacement, i) ==
    IF i > Len(word) THEN <<>>
    ELSE IF matches_at(word, pattern, i)
    THEN replacement \o str_replace(word, pattern, replacement, i + Len(pattern))
    ELSE <<word[i]>> \o str_replace(word, pattern, replacement, i + 1)

RECURSIVE normalize_phonetic(_, _)
\* normalize_phonetic of phonetic_distance, from entry n of phonetic_map on
normalize_phonetic(word, n) ==
    IF n > Len(phonetic_map) THEN word
    ELSE normalize_phonetic(str_replace(word, phonetic_map[n][1], phonetic_map[n][2], 1),
                            n + 1)

\* EditDistanceCalculator.phonetic_distance
phonetic_distance(calc, word1, word2) ==
    levenshtein_distance(calc, normalize_phonetic(word1, 1), normalize_phonetic(word2, 1))

\* The distance get_candidates_by_distance filters on
candidate_distance(calc, word, vocab_word) ==
    IF calc.allow_transpose THEN damerau_levenshtein_distance(calc, word, vocab_word)
    ELSE levenshtein_distance(calc, word, vocab_word)

Abs(x) == IF x < 0 THEN -x ELSE x

\* 0.5 * distance + 0.3 * weighted_dist + 0.2 * phonetic_dist
combined_score(calc, word, vocab_word, distance) ==
    Frac(10 * distance + 3 * weighted_edit_distance(calc, word, vocab_word)
             + 4 * phonetic_distance(calc, word, vocab_word), 20)

RECURSIVE collect_candidates_any_distance(_, _, _, _)
\* collect_candidates without the test distance <= self.max_distance
collect_candidates_any_distance(calc, word, vocabulary, n) ==
    IF n > Len(vocabulary) THEN <<>>
    ELSE LET vocab_word == vocabulary[n]
             rest == collect_candidates_any_distance(calc, word, vocabulary, n + 1)
         IN  IF Abs(Len(word) - Len(vocab_word)) > calc.max_distance THEN rest
             ELSE <<[word |-> vocab_word,
                     score |-> combined_score(calc, word, vocab_word,
                                   candidate_distance(calc, word, vocab_word))]>>
                     \o rest

RECURSIVE collect_candidates_short_filter(_, _, _, _)
\* collect_candidates with the length filter at >= self.max_distance
collect_candidates_short_filter(calc, word, vocabulary, n) ==
    IF n > Len(vocabulary) THEN <<>>
    ELSE LET vocab_word == vocabulary[n]
             rest == collect_candidates_short_filter(calc, word, vocabulary, n + 1)
         IN  IF Abs(Len(word) - Len(vocab_word)) >= calc.max_distance THEN rest
             ELSE LET distance == candidate_distance(calc, word, vocab_word) IN
                  IF distance <= calc.max_distance
                  THEN <<[word |-> vocab_word,
                          score |-> combined_score(calc, word, vocab_word, distance)]>>
                          \o rest
                  ELSE rest

RECURSIVE collect_candidates(_, _, _, _)
\* The loop of get_candidates_by_distance over the vocabulary, from its n-th
\* word in iteration order on
collect_candidates(calc, word, vocabulary, n) ==
    IF n > Len(vocabulary) THEN <<>>
    ELSE LET vocab_word == vocabulary[n]
             rest == collect_candidates(calc, word, vocabulary, n + 1)
         IN  IF Abs(Len(word) - Len(vocab_word)) > calc.max_distance THEN rest
             ELSE LET distance == candidate_distance(calc, word, vocab_word) IN
                  IF distance <= calc.max_distance
                  THEN <<[word |-> vocab_word,
                          score |-> combined_score(calc, word, vocab_word, distance)]>>
                          \o rest
                  ELSE rest

RECURSIVE insert_ascending(_, _)
\* x put into the ascending list after every entry whose score is not above
\* x's: inserting the entries of a list one by one is then a stable sort
insert_ascending(sorted, x) ==
    IF sorted = <<>> THEN <<x>>
    ELSE IF FracLT(x.score, Head(sorted).score) THEN <<x>> \o sorted
    ELSE <<Head(sorted)>> \o insert_ascending(Tail(sorted), x)

RECURSIVE sort_ascending(_, _)
\* list.sort(key=lambda x: x[1]) of the first n entries of seq
sort_ascending(seq, n) ==
    IF n = 0 THEN <<>>
    ELSE insert_ascending(sort_ascending(seq, n - 1), seq[n])

\* The sort of check_text without reverse=True: the least score first
sort_least_first(seq, n) == sort_ascending(seq, n)

RECURSIVE insert_descending(_, _)
insert_descending(sorted, x) ==
    IF sorted = <<>> THEN <<x>>
    ELSE IF FracLT(Head(sorted).score, x.score) THEN <<x>> \o sorted
    ELSE <<Head(sorted)>> \o insert_descending(Tail(sorted), x)

RECURSIVE sort_descending(_, _)
\* list.sort(key=lambda x: x[1], reverse=True) of the first n entries of seq;
\* entries of equal score keep their order
sort_descending(seq, n) ==
    IF n = 0 THEN <<>>
    ELSE insert_descending(sort_descending(seq, n - 1), seq[n])

\* seq[:n]
Take(seq, n) == SubSeq(seq, 1, Min2(n, Len(seq)))

\* EditDistanceCalculator.get_candidates_by_distance; vocabulary is the set in
\* the order Python iterates it
get_candidates_by_distance(calc, word, vocabulary, max_candidates) ==
    LET candidates == collect_candidates(calc, word, vocabulary, 1)
    IN  Take(sort_ascending(candidates, Len(candidates)), max_candidates)

(***************************************************************************)
(* The EditDistanceCalculator's operations as actions.                     *)
(***************************************************************************)
\* An EditDistanceCalculator constructed with each setting of the costs, and
\* the two words its methods are called with.
InitEdit ==
    /\ \E s \in OperationCosts, n \in OperationCosts, d \in OperationCosts :
          edit_distance_calc = EditDistanceCalculator_init(
              [DefaultEditDistanceConfig EXCEPT !.substitution_cost = s,
                                                !.insertion_cost = n,
                                                !.deletion_cost = d])
    /\ \E word1 \in Words, word2 \in Words : input = [word1 |-> word1, word2 |-> word2]
    /\ frequency_manager = Unused
    /\ spellchecker = Unused
    /\ ret = [op |-> "__init__"]
    /\ builds = 0
    /\ queries = 0

EditUnchanged ==
    UNCHANGED <<edit_distance_calc, frequency_manager, spellchecker, input, builds, queries>>

LevenshteinDistance ==
    /\ ret' = [op |-> "levenshtein_distance",
               value |-> levenshtein_distance(edit_distance_calc, input.word1, input.word2)]
    /\ EditUnchanged

DamerauLevenshteinDistance ==
    /\ ret' = [op |-> "damerau_levenshtein_distance",
               value |-> damerau_levenshtein_distance(
                            edit_distance_calc, input.word1, input.word2)]
    /\ EditUnchanged

GetEditOperations ==
    /\ ret' = [op |-> "get_edit_operations",
               value |-> get_edit_operations(input.word1, input.word2)]
    /\ EditUnchanged

NextEdit == LevenshteinDistance \/ DamerauLevenshteinDistance \/ GetEditOperations

\* Measuring: an EditDistanceCalculator and the calls made of it.
SpecEdit == InitEdit /\ [][NextEdit]_vars


(***************************************************************************)
(* Claims about the edit distances.                                        *)
(***************************************************************************)
IsDistanceCall == ret.op \in {"levenshtein_distance", "damerau_levenshtein_distance"}

\* The distance of the last call, measured from word2 to word1.
SwappedDistance ==
    IF ret.op = "levenshtein_distance"
    THEN levenshtein_distance(edit_distance_calc, input.word2, input.word1)
    ELSE damerau_levenshtein_distance(edit_distance_calc, input.word2, input.word1)

\* C8 (as claimed): under every setting of the operation costs,
\* levenshtein_distance(a, b) = levenshtein_distance(b, a) and
\* damerau_levenshtein_distance(a, b) = damerau_levenshtein_distance(b, a).
C8_SymmetricAsClaimed == IsDistanceCall => ret.value = SwappedDistance

\* C8 (amended): both distances are symmetric under every setting of the
\* operation costs in which insertion_cost = deletion_cost.
C8_Symmetric ==
    (IsDistanceCall /\ edit_distance_calc.insertion_cost = edit_distance_calc.deletion_cost)
        => ret.value = SwappedDistance

\* C8 witness: a Damerau-Levenshtein distance between two different words of
\* different lengths, with equal insertion and deletion costs that are not 1.
C8_Witness ==
    /\ ret.op = "damerau_levenshtein_distance"
    /\ edit_distance_calc.insertion_cost = edit_distance_calc.deletion_cost
    /\ edit_distance_calc.insertion_cost > 1
    /\ Len(input.word1) < Len(input.word2)
    /\ ret.value >= 2

\* C9 (as claimed): d(a, a) = 0, and d(a, b) <= |a| + |b| under every setting
\* of the operation costs, for both distances.
C9_IdentityAndBoundAsClaimed ==
    IsDistanceCall =>
        /\ input.word1 = input.word2 => ret.value = 0
        /\ ret.value <= Len(input.word1) + Len(input.word2)

\* C9 (amended): d(a, a) = 0 for both distances; the Damerau-Levenshtein
\* distance is at most |a| + |b| under every setting of the costs, and the
\* Levenshtein distance is whenever substitution_cost <= 2 or
\* insertion_cost <= 1 or deletion_cost <= 1.
C9_IdentityAndBound ==
    IsDistanceCall =>
        /\ input.word1 = input.word2 => ret.value = 0
        /\ (\/ ret.op = "damerau_levenshtein_distance"
            \/ edit_distance_calc.substitution_cost <= 2
            \/ edit_distance_calc.insertion_cost <= 1
            \/ edit_distance_calc.deletion_cost <= 1)
              => ret.value <= Len(input.word1) + Len(input.word2)

\* C9 witness: a Levenshtein distance that meets the bound |a| + |b| exactly,
\* between two words that are not empty.
C9_Witness ==
    /\ ret.op = "levenshtein_distance"
    /\ Len(input.word1) > 0
    /\ Len(input.word2) > 0
    /\ ret.value = Len(input.word1) + Len(input.word2)

\* What applying an operation at a position the word does not have gives.
IndexError == <<"IndexError">>

\* One operation applied to a word at the position it carries.
apply_operation(word, o) ==
    IF word = IndexError THEN IndexError
    ELSE IF o.op = "substitute"
    THEN IF o.position < Len(word) THEN [word EXCEPT ![o.position + 1] = o.to]
         ELSE IndexError
    ELSE IF o.op = "delete"
    THEN IF o.position < Len(word)
         THEN SubSeq(word, 1, o.position) \o SubSeq(word, o.position + 2, Len(word))
         ELSE IndexError
    ELSE IF o.op = "insert"
    THEN IF o.position <= Len(word)
         THEN SubSeq(word, 1, o.position) \o <<o.char>>
                 \o SubSeq(word, o.position + 1, Len(word))
         ELSE IndexError
    ELSE IndexError

RECURSIVE apply_in_order(_, _, _)
\* The operations n, n + 1, ... of the list applied one after the other.
apply_in_order(word, operations, n) ==
    IF n > Len(operations) THEN word
    ELSE apply_in_order(apply_operation(word, operations[n]), operations, n + 1)

UnitCosts ==
    /\ edit_distance_calc.substitution_cost = 1
    /\ edit_distance_calc.insertion_cost = 1
    /\ edit_distance_calc.deletion_cost = 1

\* C10 (as claimed, under the default unit costs): get_edit_operations(a, b)
\* has levenshtein_distance(a, b) entries, and applying them to a in list
\* order at the positions they carry produces b.
C10_OperationsAsClaimed ==
    (ret.op = "get_edit_operations" /\ UnitCosts) =>
        /\ Len(ret.value) = levenshtein_distance(edit_distance_calc, input.word1, input.word2)
        /\ apply_in_order(input.word1, ret.value, 1) = input.word2

\* C10 (amended): under the default unit costs get_edit_operations(a, b) has
\* levenshtein_distance(a, b) entries; the positions index the original a, so
\* applying the operations from the last of the list to the first, at the
\* positions they carry, produces b.
C10_Operations ==
    ret.op = "get_edit_operations" =>
        /\ UnitCosts => Len(ret.value)
                          = levenshtein_distance(edit_distance_calc, input.word1, input.word2)
        /\ apply_in_order(input.word1, Reversed(ret.value), 1) = input.word2

\* C10 witness: a list of two or more operations that starts with a delete
\* or an insert, for which applying in list order does not give word2.
C10_Witness ==
    /\ ret.op = "get_edit_operations"
    /\ UnitCosts
    /\ Len(ret.value) >= 2
    /\ ret.value[1].op \in {"delete", "insert"}
    /\ apply_in_order(input.word1, ret.value, 1) # input.word2

(***************************************************************************)
(* HomophoneDetector                                                       *)
(***************************************************************************)

\* self.homophone_groups, the entries of the dict as <<key, homophones>>; the
\* key 'its' is written twice in the literal and is one entry of the dict
homophone_groups ==
  <<
    \* ileum: ilium
      <<<<"i", "l", "e", "u", "m">>,
        <<<<"i", "l", "i", "u", "m">>>>>>,
    \* ilium: ileum
      <<<<"i", "l", "i", "u", "m">>,
        <<<<"i", "l", "e", "u", "m">>>>>>,
    \* humerus: humorous
      <<<<"h", "u", "m", "e", "r", "u", "s">>,
        <<<<"h", "u", "m", "o", "r", "o", "u", "s">>>>>>,
    \* humorous: humerus
      <<<<"h", "u", "m", "o", "r", "o", "u", "s">>,
        <<<<"h", "u", "m", "e", "r", "u", "s">>>>>>,
    \* mucus: mucous
      <<<<"m", "u", "c", "u", "s">>,
        <<<<"m", "u", "c", "o", "u", "s">>>>>>,
    \* mucous: mucus
      <<<<"m", "u", "c", "o", "u", "s">>,
        <<<<"m", "u", "c", "u", "s">>>>>>,
    \* perineal: peroneal
      <<<<"p", "e", "r", "i", "n", "e", "a", "l">>,
        <<<<"p", "e", "r", "o", "n", "e", "a", "l">>>>>>,
    \* peroneal: perineal
      <<<<"p", "e", "r", "o", "n", "e", "a", "l">>,
        <<<<"p", "e", "r", "i", "n", "e", "a", "l">>>>>>,
    \* discreet: discrete
      <<<<"d", "i", "s", "c", "r", "e", "e", "t">>,
        <<<<"d", "i", "s", "c", "r", "e", "t", "e">>>>>>,
    \* discrete: discreet
      <<<<"d", "i", "s", "c", "r", "e", "t", "e">>,
        <<<<"d", "i", "s", "c", "r", "e", "e", "t">>>>>>,
    \* aphagia: aphasia
      <<<<"a", "p", "h", "a", "g", "i", "a">>,
        <<<<"a", "p", "h", "a", "s", "i", "a">>>>>>,
    \* aphasia: aphagia
      <<<<"a", "p", "h", "a", "s", "i", "a">>,
        <<<<"a", "p", "h", "a", "g", "i", "a">>>>>>,
    \* their: there, theyre
      <<<<"t", "h", "e", "i", "r">>,
        <<<<"t", "h", "e", "r", "e">>, <<"t", "h", "e", "y", "r", "e">>>>>>,
    \* there: their, theyre
      <<<<"t", "h", "e", "r", "e">>,
        <<<<"t", "h", "e", "i", "r">>, <<"t", "h", "e", "y", "r", "e">>>>>>,
    \* theyre: their, there
      <<<<"t", "h", "e", "y", "r", "e">>,
        <<<<"t", "h", "e", "i", "r">>, <<"t", "h", "e", "r", "e">>>>>>,
    \* to: too, two
      <<<<"t", "o">>,
        <<<<"t", "o", "o">>, <<"t", "w", "o">>>>>>,
    \* too: to, two
      <<<<"t", "o", "o">>,
        <<<<"t", "o">>, <<"t", "w", "o">>>>>>,
    \* two: to, too
      <<<<"t", "w", "o">>,
        <<<<"t", "o">>, <<"t", "o", "o">>>>>>,
    \* your: youre
      <<<<"y", "o", "u", "r">>,
        <<<<"y", "o", "u", "r", "e">>>>>>,
    \* youre: your
      <<<<"y", "o", "u", "r", "e">>,
        <<<<"y", "o", "u", "r">>>>>>,
    \* its: its
      <<<<"i", "t", "s">>,
        <<<<"i", "t", "s">>>>>>,
    \* affect: effect
      <<<<"a", "f", "f", "e", "c", "t">>,
        <<<<"e", "f", "f", "e", "c", "t">>>>>>,
    \* effect: affect
      <<<<"e", "f", "f", "e", "c", "t">>,
        <<<<"a", "f", "f", "e", "c", "t">>>>>>,
    \* accept: except
      <<<<"a", "c", "c", "e", "p", "t">>,
        <<<<"e", "x", "c", "e", "p", "t">>>>>>,
    \* except: accept
      <<<<"e", "x", "c", "e", "p", "t">>,
        <<<<"a", "c", "c", "e", "p", "t">>>>>>,
    \* principal: principle
      <<<<"p", "r", "i", "n", "c", "i", "p", "a", "l">>,
        <<<<"p", "r", "i", "n", "c", "i", "p", "l", "e">>>>>>,
    \* principle: principal
      <<<<"p", "r", "i", "n", "c", "i", "p", "l", "e">>,
        <<<<"p", "r", "i", "n", "c", "i", "p", "a", "l">>>>>>,
    \* complement: compliment
      <<<<"c", "o", "m", "p", "l", "e", "m", "e", "n", "t">>,
        <<<<"c", "o", "m", "p", "l", "i", "m", "e", "n", "t">>>>>>,
    \* compliment: complement
      <<<<"c", "o", "m", "p", "l", "i", "m", "e", "n", "t">>,
        <<<<"c", "o", "m", "p", "l", "e", "m", "e", "n", "t">>>>>>,
    \* stationary: stationery
      <<<<"s", "t", "a", "t", "i", "o", "n", "a", "r", "y">>,
        <<<<"s", "t", "a", "t", "i", "o", "n", "e", "r", "y">>>>>>,
    \* stationery: stationary
      <<<<"s", "t", "a", "t", "i", "o", "n", "e", "r", "y">>,
        <<<<"s", "t", "a", "t", "i", "o", "n", "a", "r", "y">>>>>>
  >>

\* HomophoneDetector.get_homophones; the words of this model are lower case
get_homophones(word) ==
    LET hits == {n \in 1..Len(homophone_groups) : homophone_groups[n][1] = word}
    IN  IF hits = {} THEN <<>> ELSE homophone_groups[CHOOSE n \in hits : TRUE][2]

\* The words of a list
Range(seq) == {seq[n] : n \in 1..Len(seq)}

\* HomophoneDetector.is_homophone_error; vocabulary is the set of words
is_homophone_error(original, context, vocabulary) ==
    LET InVocabulary(h) == h \in vocabulary
        valid_homophones == SelectSeq(get_homophones(original), InVocabulary)
    IN  [is_homophone |-> valid_homophones # <<>>, candidates |-> valid_homophones]

\* ['patient', 'diagnosis', 'treatment', 'medical']
MedicalContextWords ==
    {<<"p", "a", "t", "i", "e", "n", "t">>,
     <<"d", "i", "a", "g", "n", "o", "s", "i", "s">>,
     <<"t", "r", "e", "a", "t", "m", "e", "n", "t">>,
     <<"m", "e", "d", "i", "c", "a", "l">>}

\* ['ileum', 'ilium', 'humerus', 'mucus', 'mucous', 'perineal', 'peroneal']
MedicalHomophones ==
    {<<"i", "l", "e", "u", "m">>,
     <<"i", "l", "i", "u", "m">>,
     <<"h", "u", "m", "e", "r", "u", "s">>,
     <<"m", "u", "c", "u", "s">>,
     <<"m", "u", "c", "o", "u", "s">>,
     <<"p", "e", "r", "i", "n", "e", "a", "l">>,
     <<"p", "e", "r", "o", "n", "e", "a", "l">>}

\* The score score_homophone_candidates gives one candidate
homophone_score(candidate, context) ==
    IF /\ \E medical_word \in MedicalContextWords : medical_word \in Range(context)
       /\ candidate \in MedicalHomophones
    THEN Frac(4, 5)
    ELSE Frac(1, 2)

\* HomophoneDetector.score_homophone_candidates
score_homophone_candidates(candidates, context) ==
    LET scored == [n \in 1..Len(candidates) |->
                      [word |-> candidates[n],
                       score |-> homophone_score(candidates[n], context)]]
    IN  sort_descending(scored, Len(scored))

(***************************************************************************)
(* SpellChecker                                                            *)
(***************************************************************************)

Letters == {"a", "b", "c", "d", "e", "f", "g", "h", "i", "j", "k", "l", "m", "n", "o", "p", "q", "r", "s", "t", "u", "v", "w", "x", "y", "z"}

\* str.isalpha() of a lower-case ASCII token
isalpha(word) == Len(word) > 0 /\ \A n \in 1..Len(word) : word[n] \in Letters

\* SpellChecker.__init__ and build_models, given the tokens of the corpus, the
\* terms load_medical_terms returns and the order in which Python iterates
\* set(tokens).  ngram_size, min_freq, word_freq and ngram_freq are attributes
\* check_text never reads.
SpellChecker_init(config, medical_terms, vocab) ==
    [vocab |-> vocab,
     medical_terms |-> medical_terms,
     domain_weight |-> config.domain_weight,
     max_candidates |-> config.max_candidates,
     max_suggestions |-> config.max_suggestions,
     homophone |-> config.homophone]

\* context = [tokens[j] for j in range(max(0, i-2), i) if tokens[j].isalpha()];
\* i counts from 0 as in Python, and Python's tokens[j] is tokens[j + 1] here
context_of(tokens, i) == SelectSeq(SubSeq(tokens, Max(0, i - 2) + 1, i), isalpha)

\* One entry of the suggestions of a homophone record
homophone_suggestion(sc, scored, frequency_score) ==
    [word |-> scored.word,
     score |-> scored.score,
     frequency_score |-> frequency_score,
     edit_distance |-> Zero,
     is_medical |-> scored.word \in sc.medical_terms]

\* A list of suggestions with one more entry in front; ok is FALSE when the
\* frequency query of the entry, made on the model fm, or one after it raised
with_suggestion(entry, fm, rest) ==
    IF ~entry.frequency_score.ok THEN [ok |-> FALSE, fm |-> fm, suggestions |-> <<>>]
    ELSE [ok |-> rest.ok, fm |-> rest.fm, suggestions |-> <<entry>> \o rest.suggestions]

RECURSIVE homophone_suggestions(_, _, _, _, _, _)
\* The suggestions of a homophone record, from the n-th scored homophone on;
\* each get_frequency_score call works on the model the call before it left
homophone_suggestions(sc, fm, homophone_scores, context, model_type, n) ==
    IF n > Len(homophone_scores) THEN [ok |-> TRUE, fm |-> fm, suggestions |-> <<>>]
    ELSE with_suggestion(
             homophone_suggestion(
                 sc, homophone_scores[n],
                 get_frequency_score(fm, homophone_scores[n].word, context, model_type)),
             fm,
             homophone_suggestions(
                 sc,
                 after_get_frequency_score(fm, homophone_scores[n].word, context,
                                           model_type),
                 homophone_scores, context, model_type, n + 1))

\* What the branch for a known token gives with the homophone record appended
homophone_record(word, context, i, homophone_scores, built) ==
    [ok |-> built.ok, fm |-> built.fm, corrected |-> <<word>>,
     errors |-> <<[original |-> word,
                   suggestions |-> built.suggestions,
                   position |-> i,
                   confidence |-> homophone_scores[1].score,
                   type |-> "homophone",
                   context |-> context]>>]

\* if homophone_scores and homophone_scores[0][1] > 0.7: ...
scored_homophones(sc, fm, word, context, i, model_type, homophone_scores) ==
    IF homophone_scores # <<>> /\ FracLT(Frac(7, 10), homophone_scores[1].score)
    THEN homophone_record(
             word, context, i, homophone_scores,
             homophone_suggestions(sc, fm, Take(homophone_scores, sc.max_suggestions),
                                   context, model_type, 1))
    ELSE [ok |-> TRUE, fm |-> fm, corrected |-> <<word>>, errors |-> <<>>]

\* if is_homophone: ...
detected_homophones(sc, fm, word, context, i, model_type, detection) ==
    IF detection.is_homophone
    THEN scored_homophones(sc, fm, word, context, i, model_type,
                           score_homophone_candidates(detection.candidates, context))
    ELSE [ok |-> TRUE, fm |-> fm, corrected |-> <<word>>, errors |-> <<>>]

\* check_text for a token that is in the vocabulary or is not alphabetic: the
\* advisory homophone record if there is one, and the token emitted as it is.
\* ok is FALSE when a frequency query raised.
known_token(sc, fm, word, context, i, model_type) ==
    IF isalpha(word) /\ sc.homophone
    THEN detected_homophones(sc, fm, word, context, i, model_type,
                             is_homophone_error(word, context, Range(sc.vocab)))
    ELSE [ok |-> TRUE, fm |-> fm, corrected |-> <<word>>, errors |-> <<>>]

\* domain_multiplier of check_text
domain_multiplier(sc, candidate) ==
    IF candidate \in sc.medical_terms THEN sc.domain_weight ELSE One

\* final_score = (freq_score * domain_multiplier) / (1 + edit_distance)
final_score(sc, candidate, freq_score, edit_distance) ==
    FracDiv(FracMul(Normalize(freq_score), domain_multiplier(sc, candidate)),
            FracSum(One, edit_distance))

\* (candidate, final_score, freq_score, edit_distance)
scored_candidate(sc, candidate, freq_score) ==
    [word |-> candidate.word,
     score |-> final_score(sc, candidate.word, freq_score, candidate.score),
     freq_score |-> freq_score,
     edit_distance |-> candidate.score]

\* The list scored with one more entry in front; ok is FALSE when the
\* frequency query of the entry, made on the model fm, or one after it raised
with_scored(entry, fm, rest) ==
    IF ~entry.freq_score.ok THEN [ok |-> FALSE, fm |-> fm, scored |-> <<>>]
    ELSE [ok |-> rest.ok, fm |-> rest.fm, scored |-> <<entry>> \o rest.scored]

RECURSIVE score_candidates(_, _, _, _, _, _)
\* for candidate, edit_distance in candidates_with_distance: ..., from the n-th
\* candidate on
score_candidates(sc, fm, candidates, context, model_type, n) ==
    IF n > Len(candidates) THEN [ok |-> TRUE, fm |-> fm, scored |-> <<>>]
    ELSE with_scored(
             scored_candidate(
                 sc, candidates[n],
                 get_frequency_score(fm, candidates[n].word, context, model_type)),
             fm,
             score_candidates(
                 sc,
                 after_get_frequency_score(fm, candidates[n].word, context, model_type),
                 candidates, context, model_type, n + 1))

RECURSIVE sum_scores_skipping_best(_, _)
\* sum_scores with the first entry left out of the sum
sum_scores_skipping_best(scored, n) ==
    IF n <= 1 THEN Zero
    ELSE FracSum(sum_scores_skipping_best(scored, n - 1), scored[n].score)

RECURSIVE sum_scores(_, _)
\* sum(s[1] for s in scored), over the first n entries
sum_scores(scored, n) ==
    IF n = 0 THEN Zero ELSE FracSum(sum_scores(scored, n - 1), scored[n].score)

\* round(final_score / total_score, 3) if total_score > 0 else 0
normalized_score(score, total_score) ==
    IF FracLT(Zero, total_score) THEN round(FracDiv(score, total_score), 3) ELSE Zero

\* One entry of the suggestions of a correction record
suggestion(sc, s, total_score) ==
    [word |-> s.word,
     score |-> normalized_score(s.score, total_score),
     frequency_score |-> round(s.freq_score, 6),
     edit_distance |-> s.edit_distance,
     is_medical |-> s.word \in sc.medical_terms]

\* classify_operations without the branch for a single operation
classify_operations_without_single(calc, original, corrected, operations) ==
    IF operations = <<>> THEN "no_error"
    ELSE IF \E n \in 1..Len(operations) : operations[n].op = "transpose"
    THEN "transposition"
    ELSE IF phonetic_distance(calc, original, corrected) < Len(operations) THEN "phonetic"
    ELSE "typo"

\* The rest of _classify_error_type, given the operations.  They are
\* substitutions, deletions and insertions of one character, so the test for
\* the text "transpose" in an operation is a test of its name.
classify_operations(calc, original, corrected, operations) ==
    IF operations = <<>> THEN "no_error"
    ELSE IF \E n \in 1..Len(operations) : operations[n].op = "transpose"
    THEN "transposition"
    ELSE IF Len(operations) = 1 /\ operations[1].op = "substitute" THEN "substitution"
    ELSE IF Len(operations) = 1 /\ operations[1].op = "delete" THEN "deletion"
    ELSE IF Len(operations) = 1 /\ operations[1].op = "insert" THEN "insertion"
    ELSE IF phonetic_distance(calc, original, corrected) < Len(operations) THEN "phonetic"
    ELSE "typo"

\* SpellChecker._classify_error_type
classify_error_type(calc, original, corrected) ==
    IF corrected \in Range(get_homophones(original)) THEN "homophone"
    ELSE classify_operations(calc, original, corrected,
                             get_edit_operations(original, corrected))

\* What the branch for an unknown word appends to corrected_tokens, with the
\* append for a word without candidates left out
emitted_for_unknown_dropping(word, scored) ==
    IF scored # <<>> THEN <<scored[1].word>> ELSE <<>>

\* What the branch for an unknown word appends to corrected_tokens: the best
\* candidate, or the word itself when there is no candidate
emitted_for_unknown(word, scored) ==
    IF scored # <<>> THEN <<scored[1].word>> ELSE <<word>>

\* The error record of a correction
correction_record(sc, calc, word, context, i, scored, total_score) ==
    [original |-> word,
     suggestions |-> [n \in 1..Min2(Len(scored), sc.max_suggestions) |->
                         suggestion(sc, scored[n], total_score)],
     position |-> i,
     confidence |-> normalized_score(scored[1].score, total_score),
     type |-> classify_error_type(calc, word, scored[1].word),
     context |-> context]

\* if scored: ... else: corrected_tokens.append(word), with scored sorted
ranked_candidates(sc, calc, fm, word, context, i, scored) ==
    [ok |-> TRUE, fm |-> fm,
     corrected |-> emitted_for_unknown(word, scored),
     errors |-> IF scored = <<>> THEN <<>>
                ELSE <<correction_record(sc, calc, word, context, i, scored,
                                         sum_scores(scored, Len(scored)))>>]

\* scored.sort(key=lambda x: x[1], reverse=True) and what follows it
scored_candidates(sc, calc, word, context, i, scoring) ==
    IF ~scoring.ok
    THEN [ok |-> FALSE, fm |-> scoring.fm, corrected |-> <<>>, errors |-> <<>>]
    ELSE ranked_candidates(sc, calc, scoring.fm, word, context, i,
                           sort_descending(scoring.scored, Len(scoring.scored)))

\* check_text for an alphabetic token that is not in the vocabulary
unknown_token(sc, calc, fm, word, context, i, model_type) ==
    scored_candidates(
        sc, calc, word, context, i,
        score_candidates(
            sc, fm, get_candidates_by_distance(calc, word, sc.vocab, sc.max_candidates),
            context, model_type, 1))

\* check_word without the test word in self.vocab: a word of the vocabulary
\* goes through candidate generation like an unknown word
check_word_without_vocab_test(sc, calc, fm, word, context, i, model_type) ==
    IF ~isalpha(word)
    THEN known_token(sc, fm, word, context, i, model_type)
    ELSE unknown_token(sc, calc, fm, word, context, i, model_type)

\* The branch of the loop of check_text for a word with its context
check_word(sc, calc, fm, word, context, i, model_type) ==
    IF word \in Range(sc.vocab) \/ ~isalpha(word)
    THEN known_token(sc, fm, word, context, i, model_type)
    ELSE unknown_token(sc, calc, fm, word, context, i, model_type)

\* The body of the loop of check_text for the token at index i (from 0)
check_token(sc, calc, fm, tokens, i, model_type) ==
    check_word(sc, calc, fm, tokens[i + 1], context_of(tokens, i), i, model_type)

\* appended with error_list.insert(0, ...) in place of error_list.append
inserted_first(step, rest) ==
    IF ~step.ok THEN [ok |-> FALSE, fm |-> step.fm, corrected |-> <<>>, errors |-> <<>>]
    ELSE [ok |-> rest.ok, fm |-> rest.fm,
          corrected |-> step.corrected \o rest.corrected,
          errors |-> rest.errors \o step.errors]

\* The lists after a pass of the loop and the passes after it
appended(step, rest) ==
    IF ~step.ok THEN [ok |-> FALSE, fm |-> step.fm, corrected |-> <<>>, errors |-> <<>>]
    ELSE [ok |-> rest.ok, fm |-> rest.fm,
          corrected |-> step.corrected \o rest.corrected,
          errors |-> step.errors \o rest.errors]

RECURSIVE check_tokens(_, _, _, _, _, _)

\* The passes of the loop from index i on, after the pass for index i - 1
\* whose result is step
next_tokens(sc, calc, step, tokens, model_type, i) ==
    IF ~step.ok THEN step
    ELSE appended(step, check_tokens(sc, calc, step.fm, tokens, model_type, i))

\* for i, word in enumerate(tokens): ..., from index i on: the tokens and the
\* records appended and the frequency model the loop leaves
check_tokens(sc, calc, fm, tokens, model_type, i) ==
    IF i >= Len(tokens) THEN [ok |-> TRUE, fm |-> fm, corrected |-> <<>>, errors |-> <<>>]
    ELSE next_tokens(sc, calc, check_token(sc, calc, fm, tokens, i, model_type),
                     tokens, model_type, i + 1)

RECURSIVE sum_confidence(_, _)
\* sum(confidence_scores), over the first n records
sum_confidence(error_list, n) ==
    IF n = 0 THEN Zero
    ELSE FracSum(sum_confidence(error_list, n - 1), error_list[n].confidence)

\* SpellChecker._get_correction_statistics
get_correction_statistics(error_list) ==
    IF error_list = <<>> THEN [total_errors |-> 0]
    ELSE LET positions == 1..Len(error_list)
             medical_corrections ==
                 Cardinality({n \in positions :
                                 /\ error_list[n].suggestions # <<>>
                                 /\ error_list[n].suggestions[1].is_medical})
         IN  [total_errors |-> Len(error_list),
              error_types |-> [t \in {error_list[n].type : n \in positions} |->
                                  Cardinality({n \in positions : error_list[n].type = t})],
              average_confidence |->
                  round(FracDiv(sum_confidence(error_list, Len(error_list)),
                                Frac(Len(error_list), 1)), 3),
              medical_corrections |-> medical_corrections,
              medical_correction_rate |->
                  round(Frac(medical_corrections, Len(error_list)), 3)]

RECURSIVE join(_, _)
\* ' '.join(tokens), from the n-th token on, as a sequence of characters
join(tokens, n) ==
    IF n > Len(tokens) THEN <<>>
    ELSE IF n = Len(tokens) THEN tokens[n]
    ELSE tokens[n] \o <<" ">> \o join(tokens, n + 1)

\* What check_text returns, given what its loop left; corrected_tokens is the
\* local list that corrected_text is joined from
check_text_result(loop) ==
    IF ~loop.ok THEN [raised |-> TRUE]
    ELSE [raised |-> FALSE,
          corrected_tokens |-> loop.corrected,
          value |-> [corrected_text |-> join(loop.corrected, 1),
                     errors |-> loop.errors,
                     statistics |-> get_correction_statistics(loop.errors)]]

(***************************************************************************)
(* The spell-checking engine: a SpellChecker constructed from a corpus,    *)
(* and check_text on a text.                                               *)
(***************************************************************************)

MaxTextLen == 3

Patient == <<"p", "a", "t", "i", "e", "n", "t">>

Ileum == <<"i", "l", "e", "u", "m">>

Ilium == <<"i", "l", "i", "u", "m">>

\* A misspelling that is in no corpus
Ilum == <<"i", "l", "u", "m">>

Period == <<".">>

\* The tokens word_tokenize yields for the texts checked
TextTokens == {Patient, Ileum, Ilum, Period}

Texts == SeqsUpTo(TextTokens, MaxTextLen)

\* The tokens of the corpus file, lower case: an empty file, a corpus with one
\* word of the homophone pair, with both, with punctuation, and with repeated
\* words
TrainingCorpora ==
    {<<>>,
     <<Ilium, Patient>>,
     <<Ileum, Ilium>>,
     <<Ileum, Period>>,
     <<Ilium, Ileum, Ilium>>}

\* The configurations of the engine: config.yaml and the medical terms file
Configs ==
    {[smoothing |-> "add-one",
      edit_distance |-> DefaultEditDistanceConfig,
      max_candidates |-> 20, max_suggestions |-> 3,
      domain_weight |-> Frac(3, 2), medical_terms |-> {Ileum, Ilium},
      homophone |-> TRUE],
     [smoothing |-> "good-turing",
      edit_distance |-> [DefaultEditDistanceConfig EXCEPT !.allow_transpose = FALSE],
      max_candidates |-> 1, max_suggestions |-> 1,
      domain_weight |-> Frac(2, 1), medical_terms |-> {Ilium},
      homophone |-> TRUE],
     [smoothing |-> "none",
      edit_distance |-> DefaultEditDistanceConfig,
      max_candidates |-> 2, max_suggestions |-> 2,
      domain_weight |-> One, medical_terms |-> {},
      homophone |-> FALSE]}

\* The orders in which a set can be iterated
Orderings(S) == {seq \in [1..Cardinality(S) -> S] : Range(seq) = S}

\* SpellChecker(config): the engine after __init__, which ends in build_models.
\* The order in which Python iterates self.vocab depends on the hash seed of
\* the process.  input is the text and model type check_text is called with.
Init ==
    /\ \E config \in Configs, corpus \in TrainingCorpora :
          /\ frequency_manager =
                 build_frequency_models(FrequencyManager_init(config.smoothing), corpus)
          /\ edit_distance_calc = EditDistanceCalculator_init(config.edit_distance)
          /\ \E vocab \in Orderings(Range(corpus)) :
                spellchecker = SpellChecker_init(config, config.medical_terms, vocab)
    /\ \E text \in Texts, model_type \in ModelTypes :
          input = [text |-> text, model_type |-> model_type]
    /\ ret = [op |-> "__init__"]
    /\ builds = 1
    /\ queries = 0

\* SpellChecker.check_text(text, model_type)
CheckText ==
    /\ \E loop \in {check_tokens(spellchecker, edit_distance_calc, frequency_manager,
                                 input.text, input.model_type, 0)} :
          /\ ret' = [op |-> "check_text", result |-> check_text_result(loop)]
          /\ frequency_manager' = loop.fm
    /\ UNCHANGED <<edit_distance_calc, spellchecker, input, builds, queries>>

Next == CheckText

Spec == Init /\ [][Next]_vars

(***************************************************************************)
(* Construction of the engine from the corpus file.                        *)
(***************************************************************************)
MaxLines == 2

MaxLineLen == 2

\* A line of the corpus file: the tokens on it; a blank or whitespace-only
\* line has none
CorpusLines == SeqsUpTo({Ileum, Ilium}, MaxLineLen)

\* The corpus file at config['corpus']['merged_corpus']: not there, or its
\* lines; a file of no lines is empty, a file of blank lines is whitespace only
CorpusFiles ==
    {[exists |-> FALSE]}
        \cup {[exists |-> TRUE, lines |-> l] : l \in SeqsUpTo(CorpusLines, MaxLines)}

RECURSIVE word_tokenize(_, _)
\* word_tokenize(f.read().lower()): the tokens of the lines from the n-th on
word_tokenize(lines, n) ==
    IF n > Len(lines) THEN <<>> ELSE lines[n] \o word_tokenize(lines, n + 1)

\* Nothing is constructed yet; input is the configuration and the corpus file
InitConstruct ==
    /\ frequency_manager = Unused
    /\ edit_distance_calc = Unused
    /\ spellchecker = Unused
    /\ \E config \in Configs, file \in CorpusFiles :
          input = [config |-> config, corpus_file |-> file]
    /\ ret = [op |-> "none"]
    /\ builds = 0
    /\ queries = 0

\* SpellChecker(config): __init__ and the build_models call it ends in.
\* open() raises FileNotFoundError when the corpus file is not there and the
\* exception leaves __init__; otherwise the models and the vocabulary are
\* built from whatever tokens the file has.
Construct ==
    /\ ret.op = "none"
    /\ IF ~input.corpus_file.exists
       THEN /\ ret' = [op |-> "__init__", raised |-> TRUE]
            /\ UNCHANGED <<frequency_manager, edit_distance_calc, spellchecker, builds>>
       ELSE \E vocab \in Orderings(Range(word_tokenize(input.corpus_file.lines, 1))) :
               /\ frequency_manager' =
                      build_frequency_models(
                          FrequencyManager_init(input.config.smoothing),
                          word_tokenize(input.corpus_file.lines, 1))
               /\ edit_distance_calc' =
                      EditDistanceCalculator_init(input.config.edit_distance)
               /\ spellchecker' =
                      SpellChecker_init(input.config, input.config.medical_terms, vocab)
               /\ ret' = [op |-> "__init__", raised |-> FALSE]
               /\ builds' = builds + 1
    /\ UNCHANGED <<input, queries>>

NextConstruct == Construct

\* Construction: a configuration, a corpus file, and SpellChecker(config).
SpecConstruct == InitConstruct /\ [][NextConstruct]_vars

\* C14 (as claimed): construction does not end in a usable engine whose
\* vocabulary is empty: when SpellChecker(config) returns, the vocabulary has
\* a word, and a corpus file that is missing, empty or whitespace only makes
\* the construction raise.
C14_NoEmptyVocabulary ==
    ret.op = "__init__" =>
        /\ ~ret.raised => spellchecker.vocab # <<>>
        /\ (~input.corpus_file.exists
              \/ word_tokenize(input.corpus_file.lines, 1) = <<>>) => ret.raised

\* check_text has returned
Returned == ret.op = "check_text" /\ ~ret.result.raised

\* The token at index i (from 0) of the input is in the vocabulary or is not
\* alphabetic
IsKnown(i) ==
    \/ input.text[i + 1] \in Range(spellchecker.vocab)
    \/ ~isalpha(input.text[i + 1])

\* C1: check_text returns, and every token of the input that is in the
\* vocabulary, and every token that is not alphabetic, is at the same index of
\* the corrected tokens, unchanged, with or without a homophone record.
C1_KnownTokensUnchanged ==
    ret.op = "check_text" =>
        /\ ~ret.result.raised
        /\ \A i \in 0..(Len(input.text) - 1) :
              IsKnown(i) =>
                  /\ i + 1 <= Len(ret.result.corrected_tokens)
                  /\ ret.result.corrected_tokens[i + 1] = input.text[i + 1]

\* C1 witness: a result for a text with a word of the vocabulary that got a
\* homophone record and with a token that is not alphabetic
C1_Witness ==
    /\ Returned
    /\ \E i \in 0..(Len(input.text) - 1) :
          /\ input.text[i + 1] \in Range(spellchecker.vocab)
          /\ isalpha(input.text[i + 1])
          /\ \E k \in 1..Len(ret.result.value.errors) :
                /\ ret.result.value.errors[k].position = i
                /\ ret.result.value.errors[k].type = "homophone"
    /\ \E i \in 0..(Len(input.text) - 1) : ~isalpha(input.text[i + 1])

\* C2: the positions of the error records of a result are strictly ascending
\* in list order, so no position has two records.
C2_PositionsAscending ==
    Returned =>
        \A k \in 1..(Len(ret.result.value.errors) - 1) :
            ret.result.value.errors[k].position < ret.result.value.errors[k + 1].position

\* C2 witness: a result with the homophone record of a word of the vocabulary
\* and after it the correction record of an unknown word
C2_Witness ==
    /\ Returned
    /\ \E k \in 1..(Len(ret.result.value.errors) - 1) :
          /\ ret.result.value.errors[k].type = "homophone"
          /\ ret.result.value.errors[k].original \in Range(spellchecker.vocab)
          /\ ret.result.value.errors[k + 1].original \notin Range(spellchecker.vocab)
          /\ ret.result.value.errors[k].position < ret.result.value.errors[k + 1].position

\* C12: in every error record of a result, correction record or homophone
\* record, confidence is in [0, 1], and when the record has a suggestion the
\* score of its first suggestion equals its confidence.
C12_ConfidenceOfRecords ==
    Returned =>
        \A k \in 1..Len(ret.result.value.errors) :
            /\ FracLE(Zero, ret.result.value.errors[k].confidence)
            /\ FracLE(ret.result.value.errors[k].confidence, One)
            /\ ret.result.value.errors[k].suggestions # <<>> =>
                  FracEq(ret.result.value.errors[k].suggestions[1].score,
                         ret.result.value.errors[k].confidence)

\* C12 witness: a result with the homophone record of a word of the
\* vocabulary and with a correction record that has two suggestions of
\* different score, so that its confidence is below 1
C12_Witness ==
    /\ Returned
    /\ \E k \in 1..Len(ret.result.value.errors) :
          /\ ret.result.value.errors[k].type = "homophone"
          /\ ret.result.value.errors[k].original \in Range(spellchecker.vocab)
          /\ ret.result.value.errors[k].suggestions # <<>>
    /\ \E k \in 1..Len(ret.result.value.errors) :
          /\ ret.result.value.errors[k].original \notin Range(spellchecker.vocab)
          /\ Len(ret.result.value.errors[k].suggestions) >= 2
          /\ FracLT(ret.result.value.errors[k].suggestions[2].score,
                    ret.result.value.errors[k].suggestions[1].score)
          /\ FracLT(ret.result.value.errors[k].confidence, One)

\* The token at index i (from 0) of the input is alphabetic, is not in the
\* vocabulary, and no word of the vocabulary is within max_distance of it
HasNoCandidate(i) ==
    /\ isalpha(input.text[i + 1])
    /\ input.text[i + 1] \notin Range(spellchecker.vocab)
    /\ \A v \in Range(spellchecker.vocab) :
          candidate_distance(edit_distance_calc, input.text[i + 1], v)
              > edit_distance_calc.max_distance

\* C13: an alphabetic token that is not in the vocabulary and has no
\* vocabulary word within max_distance is at the same index of the corrected
\* tokens, unchanged, and no error record has its position.
C13_NoCandidateUnchanged ==
    Returned =>
        \A i \in 0..(Len(input.text) - 1) :
            HasNoCandidate(i) =>
                /\ i + 1 <= Len(ret.result.corrected_tokens)
                /\ ret.result.corrected_tokens[i + 1] = input.text[i + 1]
                /\ \A k \in 1..Len(ret.result.value.errors) :
                      ret.result.value.errors[k].position # i

\* C13 witness: a result for a text with an unknown word that has no
\* candidate in a vocabulary that is not empty, after which another unknown
\* word was corrected
C13_Witness ==
    /\ Returned
    /\ spellchecker.vocab # <<>>
    /\ \E i \in 0..(Len(input.text) - 1) :
          /\ HasNoCandidate(i)
          /\ ret.result.corrected_tokens[i + 1] = input.text[i + 1]
          /\ \E k \in 1..Len(ret.result.value.errors) :
                /\ ret.result.value.errors[k].position > i
                /\ ret.result.value.errors[k].original \notin Range(spellchecker.vocab)

(***************************************************************************)
(* Candidate generation: get_candidates_by_distance on a word and a        *)
(* vocabulary.                                                             *)
(***************************************************************************)
MaxVocabSize == 2

\* The words of the vocabularies
VocabWords ==
    {<<"a">>, <<"b">>, <<"a", "b">>, <<"b", "a">>, <<"a", "a", "b">>, <<"a", "b", "a">>}

\* A vocabulary set in each order Python may iterate it
Vocabularies ==
    UNION {Orderings(S) : S \in {T \in SUBSET VocabWords : Cardinality(T) <= MaxVocabSize}}

\* The edit_distance configurations: the defaults, no transposition, a smaller
\* max_distance, and costs that differ per operation
CandidateConfigs ==
    {DefaultEditDistanceConfig,
     [DefaultEditDistanceConfig EXCEPT !.allow_transpose = FALSE],
     [DefaultEditDistanceConfig EXCEPT !.max_distance = 1],
     [DefaultEditDistanceConfig EXCEPT !.max_distance = 1, !.allow_transpose = FALSE],
     [DefaultEditDistanceConfig EXCEPT !.insertion_cost = 2, !.allow_transpose = FALSE],
     [DefaultEditDistanceConfig EXCEPT !.substitution_cost = 2, !.deletion_cost = 2]}

\* The values of max_candidates
CandidateLimits == {1, 2}

\* An EditDistanceCalculator, and the arguments get_candidates_by_distance is
\* called with
InitCandidates ==
    /\ \E config \in CandidateConfigs :
          edit_distance_calc = EditDistanceCalculator_init(config)
    /\ \E word \in Words, vocabulary \in Vocabularies, max_candidates \in CandidateLimits :
          input = [word |-> word, vocabulary |-> vocabulary,
                   max_candidates |-> max_candidates]
    /\ frequency_manager = Unused
    /\ spellchecker = Unused
    /\ ret = [op |-> "__init__"]
    /\ builds = 0
    /\ queries = 0

\* EditDistanceCalculator.get_candidates_by_distance(word, vocabulary, max_candidates)
GetCandidatesByDistance ==
    /\ ret' = [op |-> "get_candidates_by_distance",
               value |-> get_candidates_by_distance(
                             edit_distance_calc, input.word, input.vocabulary,
                             input.max_candidates)]
    /\ EditUnchanged

NextCandidates == GetCandidatesByDistance

SpecCandidates == InitCandidates /\ [][NextCandidates]_vars

\* Lower-case letters in code point order
Lowercase ==
    <<"a", "b", "c", "d", "e", "f", "g", "h", "i", "j", "k", "l", "m",
      "n", "o", "p", "q", "r", "s", "t", "u", "v", "w", "x", "y", "z">>

\* ord(c) of a lower-case letter, counted from 'a'
ord(c) == CHOOSE n \in 1..Len(Lowercase) : Lowercase[n] = c

RECURSIVE str_lt(_, _)
\* word1 < word2 of two str: the natural string order
str_lt(word1, word2) ==
    IF word2 = <<>> THEN FALSE
    ELSE IF word1 = <<>> THEN TRUE
    ELSE IF Head(word1) # Head(word2) THEN ord(Head(word1)) < ord(Head(word2))
    ELSE str_lt(Tail(word1), Tail(word2))

\* C15 (as claimed): the list get_candidates_by_distance returns is ascending
\* by combined score and, among equal scores, ascending by the natural string
\* order of the word, and it is the same list for every iteration order of
\* the vocabulary set.
C15_TiesByStringOrder ==
    ret.op = "get_candidates_by_distance" =>
        /\ \A k \in 1..(Len(ret.value) - 1) :
              \/ FracLT(ret.value[k].score, ret.value[k + 1].score)
              \/ /\ FracEq(ret.value[k].score, ret.value[k + 1].score)
                 /\ str_lt(ret.value[k].word, ret.value[k + 1].word)
        /\ \A vocabulary \in Orderings(Range(input.vocabulary)) :
              get_candidates_by_distance(edit_distance_calc, input.word, vocabulary,
                                         input.max_candidates) = ret.value

\* The words of the vocabulary whose distance d to the input word is at most
\* max_distance
WithinMaxDistance ==
    {v \in Range(input.vocabulary) :
        candidate_distance(edit_distance_calc, input.word, v)
            <= edit_distance_calc.max_distance}

\* The words of the list returned
ReturnedWords == {ret.value[k].word : k \in 1..Len(ret.value)}

\* C16: every word get_candidates_by_distance returns has distance d at most
\* max_distance to the input word (d is Damerau-Levenshtein if allow_transpose,
\* Levenshtein if not), and when the vocabulary words with d <= max_distance
\* are no more than max_candidates the words returned are exactly those: the
\* length filter drops none of them.
C16_ExactlyWithinMaxDistance ==
    ret.op = "get_candidates_by_distance" =>
        /\ ReturnedWords \subseteq WithinMaxDistance
        /\ Cardinality(WithinMaxDistance) <= input.max_candidates =>
              ReturnedWords = WithinMaxDistance

\* C16 witness: a call whose vocabulary has a word that the length filter
\* drops and a word at distance max_distance whose length differs by
\* max_distance from the input word and that is returned
C16_Witness ==
    /\ ret.op = "get_candidates_by_distance"
    /\ Cardinality(WithinMaxDistance) <= input.max_candidates
    /\ \E v \in Range(input.vocabulary) :
          Abs(Len(input.word) - Len(v)) > edit_distance_calc.max_distance
    /\ \E v \in ReturnedWords :
          /\ Abs(Len(input.word) - Len(v)) = edit_distance_calc.max_distance
          /\ candidate_distance(edit_distance_calc, input.word, v)
                 = edit_distance_calc.max_distance

\* The token at index i (from 0) of the input is alphabetic and is not in the
\* vocabulary
IsUnknown(i) ==
    /\ isalpha(input.text[i + 1])
    /\ input.text[i + 1] \notin Range(spellchecker.vocab)

\* What candidate generation returns for the token at index i
CandidatesOf(i) ==
    get_candidates_by_distance(edit_distance_calc, input.text[i + 1],
                               spellchecker.vocab, spellchecker.max_candidates)

\* final = (freq_score * domain_multiplier) / (1 + edit_distance) of a
\* candidate for the token at index i, edit_distance being the number that
\* candidate generation returns with the word
FinalOf(i, candidate) ==
    final_score(spellchecker, candidate.word,
                get_frequency_score(frequency_manager, candidate.word,
                                    context_of(input.text, i), input.model_type),
                candidate.score)

\* The record at index k of the errors is for the token at index i, its
\* suggestions are some of the candidates, in non-increasing order of final,
\* no candidate left out has a larger final than one that is listed, and the
\* first suggestion is the token emitted, whose final is maximal
RanksByFinal(i, k, candidates, finals) ==
    LET record == ret.result.value.errors[k]
        listed == {n \in 1..Len(candidates) :
                      \E m \in 1..Len(record.suggestions) :
                          record.suggestions[m].word = candidates[n].word}
    IN  /\ Len(record.suggestions) = Min2(spellchecker.max_suggestions, Len(candidates))
        /\ Cardinality(listed) = Len(record.suggestions)
        /\ \A m \in 1..(Len(record.suggestions) - 1) :
              \E n1 \in listed, n2 \in listed :
                  /\ candidates[n1].word = record.suggestions[m].word
                  /\ candidates[n2].word = record.suggestions[m + 1].word
                  /\ FracLE(finals[n2], finals[n1])
        /\ \A n1 \in listed, n2 \in (1..Len(candidates)) \ listed :
              FracLE(finals[n2], finals[n1])
        /\ record.suggestions # <<>> =>
              record.suggestions[1].word = ret.result.corrected_tokens[i + 1]
        /\ \E n1 \in 1..Len(candidates) :
              /\ candidates[n1].word = ret.result.corrected_tokens[i + 1]
              /\ \A n2 \in 1..Len(candidates) : FracLE(finals[n2], finals[n1])

\* The token at index i has no candidate, or it has a record that ranks the
\* candidates by final
CorrectedByFinal(i, candidates) ==
    candidates # <<>> =>
        \E k \in 1..Len(ret.result.value.errors) :
            /\ ret.result.value.errors[k].position = i
            /\ RanksByFinal(i, k, candidates,
                            [n \in 1..Len(candidates) |-> FinalOf(i, candidates[n])])

\* C18: for every alphabetic token that is not in the vocabulary and has a
\* candidate, the token emitted is a candidate of maximal final =
\* (freq_score * domain_multiplier) / (1 + edit_distance), the suggestions of
\* its record are the first max_suggestions candidates in non-increasing
\* order of final, and the word of the first suggestion is the token emitted.
C18_BestByFinal ==
    Returned =>
        \A i \in 0..(Len(input.text) - 1) :
            IsUnknown(i) => CorrectedByFinal(i, CandidatesOf(i))

\* C18 witness: a result in which an unknown word was replaced by the
\* candidate of larger final of two candidates with different final, both
\* listed as suggestions
C18_Witness ==
    /\ Returned
    /\ \E k \in 1..Len(ret.result.value.errors) :
          /\ ret.result.value.errors[k].original \notin Range(spellchecker.vocab)
          /\ Len(ret.result.value.errors[k].suggestions) = 2
          /\ FracLT(ret.result.value.errors[k].suggestions[2].score,
                    ret.result.value.errors[k].suggestions[1].score)
          /\ ret.result.corrected_tokens[ret.result.value.errors[k].position + 1]
                 = ret.result.value.errors[k].suggestions[1].word
          /\ ret.result.corrected_tokens[ret.result.value.errors[k].position + 1]
                 # ret.result.value.errors[k].original

(***************************************************************************)
(* Error type classification: _classify_error_type on a pair of words.     *)
(***************************************************************************)
\* The words classified: the words over the alphabet, a homophone pair, a
\* misspelling of it, and a pair that the phonetic patterns make equal
ClassifiedWords == Words \cup {Ileum, Ilium, Ilum, <<"p", "h">>, <<"f">>}

\* A SpellChecker's edit distance calculator, and the pair of words
InitClassify ==
    /\ \E config \in CandidateConfigs :
          edit_distance_calc = EditDistanceCalculator_init(config)
    /\ \E original \in ClassifiedWords, corrected \in ClassifiedWords :
          input = [original |-> original, corrected |-> corrected]
    /\ frequency_manager = Unused
    /\ spellchecker = Unused
    /\ ret = [op |-> "__init__"]
    /\ builds = 0
    /\ queries = 0

\* SpellChecker._classify_error_type(original, corrected)
ClassifyErrorType ==
    /\ ret' = [op |-> "_classify_error_type",
               value |-> classify_error_type(edit_distance_calc, input.original,
                                             input.corrected)]
    /\ EditUnchanged

NextClassify == ClassifyErrorType

SpecClassify == InitClassify /\ [][NextClassify]_vars

\* The name of the error type of a single operation
OperationName(operation) ==
    IF operation.op = "substitute" THEN "substitution"
    ELSE IF operation.op = "delete" THEN "deletion"
    ELSE IF operation.op = "insert" THEN "insertion"
    ELSE "transposition"

ErrorTypes ==
    {"homophone", "no_error", "transposition", "substitution", "deletion",
     "insertion", "phonetic", "typo"}

\* The label the decision list gives, ops being the operations recovered
DecisionList(ops) ==
    IF \E n \in 1..Len(get_homophones(input.original)) :
           get_homophones(input.original)[n] = input.corrected
    THEN "homophone"
    ELSE IF Len(ops) = 0 THEN "no_error"
    ELSE IF \E n \in 1..Len(ops) : ops[n].op = "transpose" THEN "transposition"
    ELSE IF Len(ops) = 1 THEN OperationName(ops[1])
    ELSE IF phonetic_distance(edit_distance_calc, input.original, input.corrected)
                < Len(ops)
    THEN "phonetic"
    ELSE "typo"

\* C19: _classify_error_type returns homophone if corrected is among the
\* homophones of original; otherwise no_error if get_edit_operations gives no
\* operation, transposition if one of them is a transposition, the name of
\* the operation if there is exactly one, phonetic if the phonetic distance
\* is below their number, and typo otherwise; it always returns one of these
\* labels.
C19_DecisionList ==
    ret.op = "_classify_error_type" =>
        /\ ret.value \in ErrorTypes
        /\ ret.value = DecisionList(get_edit_operations(input.original, input.corrected))

\* C19 witness: a pair that is no homophone pair, with more than one
\* operation and a smaller phonetic distance, classified phonetic
C19_Witness ==
    /\ ret.op = "_classify_error_type"
    /\ ret.value = "phonetic"
    /\ Len(get_edit_operations(input.original, input.corrected)) >= 2
    /\ phonetic_distance(edit_distance_calc, input.original, input.corrected)
           < Len(get_edit_operations(input.original, input.corrected))

(***************************************************************************)
(* damerau_levenshtein_distance with the default costs on words of three   *)
(* letters.                                                                *)
(***************************************************************************)
TranspositionAlphabet == {"a", "b", "c"}

TranspositionWords == SeqsUpTo(TranspositionAlphabet, MaxWordLen)

\* An EditDistanceCalculator with the default configuration and the two words
InitDamerau ==
    /\ edit_distance_calc = EditDistanceCalculator_init(DefaultEditDistanceConfig)
    /\ \E word1 \in TranspositionWords, word2 \in TranspositionWords :
          input = [word1 |-> word1, word2 |-> word2]
    /\ frequency_manager = Unused
    /\ spellchecker = Unused
    /\ ret = [op |-> "__init__"]
    /\ builds = 0
    /\ queries = 0

NextDamerau == DamerauLevenshteinDistance

SpecDamerau == InitDamerau /\ [][NextDamerau]_vars

RECURSIVE restricted_distance(_, _, _, _)
\* The optimal string alignment distance of the first i characters of a and
\* the first j of b: the least number of insertions, deletions, substitutions
\* and transpositions of two adjacent characters, no substring edited twice
restricted_distance(a, b, i, j) ==
    IF i = 0 THEN j
    ELSE IF j = 0 THEN i
    ELSE LET plain == Min3(restricted_distance(a, b, i - 1, j) + 1,
                           restricted_distance(a, b, i, j - 1) + 1,
                           restricted_distance(a, b, i - 1, j - 1)
                               + (IF a[i] = b[j] THEN 0 ELSE 1))
         IN  IF i > 1 /\ j > 1 /\ a[i] = b[j - 1] /\ a[i - 1] = b[j]
             THEN Min2(plain, restricted_distance(a, b, i - 2, j - 2) + 1)
             ELSE plain

\* C20 (as claimed): with the default unit costs damerau_levenshtein_distance(a, b)
\* is the restricted Damerau-Levenshtein distance of a and b, the optimal
\* string alignment distance.
C20_RestrictedDistance ==
    (ret.op = "damerau_levenshtein_distance" /\ UnitCosts) =>
        ret.value = restricted_distance(input.word1, input.word2,
                                        Len(input.word1), Len(input.word2))

(***************************************************************************)
(* check_text on token streams long enough for a token that is not         *)
(* alphabetic to stand between a word and the words before it.             *)
(***************************************************************************)
MaxStreamLen == 4

\* The tokens of the streams: a word with no candidate, a misspelling and a
\* token that is not alphabetic
StreamTokens == {Patient, Ilum, Period}

Streams == SeqsUpTo(StreamTokens, MaxStreamLen)

\* SpellChecker(config) on a corpus with the two words ileum and ilium, and
\* the stream and model type check_text is called with
InitStream ==
    /\ \E config \in Configs :
          /\ frequency_manager =
                 build_frequency_models(FrequencyManager_init(config.smoothing),
                                        <<Ileum, Ilium>>)
          /\ edit_distance_calc = EditDistanceCalculator_init(config.edit_distance)
          /\ \E vocab \in Orderings({Ileum, Ilium}) :
                spellchecker = SpellChecker_init(config, config.medical_terms, vocab)
    /\ \E text \in Streams, model_type \in ModelTypes :
          input = [text |-> text, model_type |-> model_type]
    /\ ret = [op |-> "__init__"]
    /\ builds = 1
    /\ queries = 0

NextStream == CheckText

SpecStream == InitStream /\ [][NextStream]_vars

\* The last two alphabetic tokens before index i (from 0) of the stream, in
\* stream order, or fewer when fewer precede i
LastTwoAlphabetic(tokens, i) == Last(SelectSeq(SubSeq(tokens, 1, i), isalpha), 2)

\* C21 (as claimed): the context of every error record is the last two
\* alphabetic tokens that precede the record's position in the input stream,
\* in stream order; a token that is not alphabetic among the two positions
\* just before it does not shorten the context when earlier alphabetic tokens
\* exist.
C21_ContextSkipsNonAlphabetic ==
    Returned =>
        \A k \in 1..Len(ret.result.value.errors) :
            ret.result.value.errors[k].context
                = LastTwoAlphabetic(input.text, ret.result.value.errors[k].position)

(***************************************************************************)
(* check_text on one word, over vocabularies of short words: the error     *)
(* types of the records.                                                   *)
(***************************************************************************)
\* The words of the corpora: the short words of VocabWords and f, which the
\* phonetic patterns make equal to ph
TypedCorpusWords == VocabWords \cup {<<"f">>}

\* The corpus files: two tokens each
TypedCorpora == {<<w1, w2>> : w1 \in TypedCorpusWords, w2 \in TypedCorpusWords}

\* The texts: one token, a word over the alphabet or ph
TypedTexts == {<<w>> : w \in (Words \ {<<>>}) \cup {<<"p", "h">>}}

\* SpellChecker(config) on a corpus of short words, and the one-word text
InitTyped ==
    /\ \E config \in Configs, corpus \in TypedCorpora :
          /\ frequency_manager =
                 build_frequency_models(FrequencyManager_init(config.smoothing), corpus)
          /\ edit_distance_calc = EditDistanceCalculator_init(config.edit_distance)
          /\ \E vocab \in Orderings(Range(corpus)) :
                spellchecker = SpellChecker_init(config, config.medical_terms, vocab)
    /\ \E text \in TypedTexts, model_type \in ModelTypes :
          input = [text |-> text, model_type |-> model_type]
    /\ ret = [op |-> "__init__"]
    /\ builds = 1
    /\ queries = 0

NextTyped == CheckText

SpecTyped == InitTyped /\ [][NextTyped]_vars

\* The error types the claim allows in a record
EmittedTypes == {"homophone", "substitution", "deletion", "insertion", "phonetic", "typo"}

\* C22: the type of every error record check_text returns is one of
\* homophone, substitution, deletion, insertion, phonetic and typo; no_error
\* and transposition are in no record, and the word a correction record puts
\* in place of the original differs from the original.
C22_EmittedTypes ==
    Returned =>
        \A k \in 1..Len(ret.result.value.errors) :
            /\ ret.result.value.errors[k].type \in EmittedTypes
            /\ ret.result.value.errors[k].type # "homophone" =>
                  ret.result.corrected_tokens[ret.result.value.errors[k].position + 1]
                      # ret.result.value.errors[k].original

\* C22 witness: a correction record of type typo, for a word that was
\* replaced by a word more than one operation away
C22_Witness ==
    /\ Returned
    /\ \E k \in 1..Len(ret.result.value.errors) :
          /\ ret.result.value.errors[k].type = "typo"
          /\ ret.result.value.errors[k].original \notin Range(spellchecker.vocab)
          /\ Len(get_edit_operations(
                     ret.result.value.errors[k].original,
                     ret.result.corrected_tokens[ret.result.value.errors[k].position + 1]))
                 >= 2

=============================================================================
